---- MODULE Spec2Model ----
(***************************************************************************)
(* EdgeNPU software stack: the firmware runtime                            *)
(* (firmware/runtime/npu_runtime_fw.c, npu_layer_exec.c) and the host      *)
(* driver (driver/src/npu_driver.c) as state machines over the register    *)
(* block.                                                                  *)
(*                                                                         *)
(* The two stacks are separate programs.  A behaviour follows one of them: *)
(* `unit' is chosen in Init and never changes.                             *)
(*                                                                         *)
(* Registers the hardware drives (STATUS, IRQ_STATUS, DMA_STATUS) are      *)
(* volatile: every read is an input and may return any value.  Registers   *)
(* only the software drives are not kept, except CTRL, which is read back  *)
(* by the read-modify-write macros; instead `writes' logs, in order, every *)
(* register and buffer write and every callback invocation of the call in  *)
(* progress (or of the last call when none is in progress).                *)
(*                                                                         *)
(* uint32_t quantities (sizes, offsets, counts, times) are pairs <<hi, lo>> *)
(* of 16-bit halves, so that all arithmetic is done modulo 2^32 as the C   *)
(* code does it.  Bit masks (control, status and interrupt registers) are  *)
(* the sets of their set bit positions: & is \cap, | is \cup.              *)
(***************************************************************************)
EXTENDS Naturals, Integers, Sequences, FiniteSets, TLC

VARIABLES
    unit,           \* "fw": firmware runtime, "drv": host driver,
                    \* "rt": host runtime library
    client,         \* the program that calls the unit, see Clients below
    npu,            \* Linux driver: struct edge_npu_dev (edge_npu.c:53) and
                    \* the device and the processes it serves
    runtime,        \* runtime library: struct npu_runtime (npu_runtime.c:31)
    inst,           \* npu_fw_inst.h: an instruction built by MAKE_INST
    exec,           \* npu_layer_exec.c: the sequence an exec function built
    g_initialized,  \* npu_runtime_fw.c:18
    g_ctx,          \* npu_runtime_fw.c:16   (fw_context_t)
    g_config,       \* npu_runtime_fw.c:17   (runtime_config_t)
    ctrl,           \* content of the control register (offset 0x000)
    ctx,            \* driver: struct npu_context
    pc,             \* the blocking call in progress and its poll loop
    op,             \* the last call that returned, with its return value
    writes          \* register / buffer writes of the current or last call

vars == <<unit, client, npu, runtime, inst, exec, g_initialized, g_ctx, g_config, ctrl, ctx, pc, op, writes>>

(***************************************************************************)
(* uint32_t arithmetic                                                     *)
(***************************************************************************)
W16 == 256 * 256

U32(n) == <<n \div W16, n % W16>>

UINT32_MAX == <<W16 - 1, W16 - 1>>

Add32(a, b) ==
    LET lo == a[2] + b[2]
        hi == a[1] + b[1] + (lo \div W16)
    IN  <<hi % W16, lo % W16>>

\* carry out of the 32-bit addition: 1 when a + b does not fit in 32 bits
Carry32(a, b) == (a[1] + b[1] + ((a[2] + b[2]) \div W16)) \div W16

Lt32(a, b) == a[1] < b[1] \/ (a[1] = b[1] /\ a[2] < b[2])

Gt32(a, b) == Lt32(b, a)

\* a * k modulo 2^32 for a small constant k (k < 2^15)
MulSmall32(a, k) ==
    LET lo == a[2] * k
        hi == (a[1] * k + (lo \div W16))
    IN  <<hi % W16, lo % W16>>

\* the high bits a * k loses in 32 bits (0 when the product fits)
MulSmallOverflow32(a, k) == (a[1] * k + ((a[2] * k) \div W16)) \div W16

Half32(a) == <<a[1] \div 2, (a[1] % 2) * (W16 \div 2) + (a[2] \div 2)>>

Zero32 == U32(0)

NonZero32(a) == a # Zero32

\* ceil(a / 10) as a natural number (at most 429496730)
CeilDiv10(a) ==
    LET qh == a[1] \div 10
        r  == a[1] % 10
        t  == r * W16 + a[2]
    IN  qh * W16 + (t \div 10) + (IF t % 10 = 0 THEN 0 ELSE 1)

(***************************************************************************)
(* Firmware: register bits and hardware parameters (npu_fw_regs.h)         *)
(***************************************************************************)
CTRL_ENABLE == {0}
CTRL_START  == {1}
CTRL_RESET  == {2}
CTRL_ABORT  == {3}

STATUS_BUSY  == {0}
STATUS_DONE  == {1}
STATUS_ERROR == {2}
STATUS_IDLE  == {3}

IRQ_DONE     == {0}
IRQ_ERROR    == {1}
IRQ_DMA_DONE == {2}

DMA_CTRL_START   == {0}
DMA_CTRL_IRQ_EN  == {2}
DMA_CTRL_2D_MODE == {3}

\* npu_fw_types.h:175-176
DMA_FLAG_2D  == {0}
DMA_FLAG_IRQ == {1}

DMA_STATUS_BUSY  == {0}
DMA_STATUS_DONE  == {1}
DMA_STATUS_ERROR == {2}

DMA_CH_WEIGHT  == 0
DMA_CH_ACT_IN  == 1
DMA_CH_ACT_OUT == 2
DMA_CTRL_CH_SEL_SHIFT == 4

PERF_CTRL_ENABLE == {0}
PERF_CTRL_RESET  == {1}

\* 0x40100000, 0x40200000, 0x40300000
NPU_INST_BUF_BASE   == <<16400, 0>>
NPU_WEIGHT_BUF_BASE == <<16416, 0>>
NPU_ACT_BUF_BASE    == <<16432, 0>>

POOL_TYPE_MAX        == 1
POOL_TYPE_AVG        == 2
POOL_TYPE_GLOBAL_AVG == 3

NPU_PE_ROWS == 16
NPU_PE_COLS == 16
NPU_INST_BUF_ENTRIES == 1024

\* what a read of the STATUS register can return: any setting of the four
\* status bits (busy, done, error, idle)
StatusValues == SUBSET (0..3)

\* what a read of the DMA status register can return (busy, done, error)
DmaStatusValues == SUBSET (0..2)

\* what a read of the IRQ status register can return (done, error, dma-done)
IrqStatusValues == SUBSET (0..2)

(***************************************************************************)
(* The write log                                                           *)
(***************************************************************************)
\* REG_WRITE(reg, val) of a quantity
Wr(reg, val) == [t |-> reg, off |-> Zero32, v |-> val, bits |-> {}]

\* REG_WRITE(reg, mask) of a bit mask, or the write half of REG_SET / REG_CLR
WrBits(reg, mask) == [t |-> reg, off |-> Zero32, v |-> Zero32, bits |-> mask]

\* a copy of len units into buffer mem starting at offset off
Cp(mem, off, len) == [t |-> mem, off |-> off, v |-> len, bits |-> {}]

\* 0xFFFFFFFF as a mask
AllBits == 0..31

\* a call of the registered callback cb ("done_callback" with FW_OK,
\* "error_callback" with FW_ERROR_HW_FAULT and the error code read)
Invoke(cb) == [t |-> cb, off |-> Zero32, v |-> Zero32, bits |-> {}]

Targets(log) == {log[i].t : i \in 1..Len(log)}

(***************************************************************************)
(* Firmware context (npu_fw_types.h, npu_runtime_fw.c)                     *)
(***************************************************************************)
\* perf_stats_t after memset.  The counters are kept as natural numbers: the
\* counter values of the model are small.  pe_utilization, a float holding a
\* percentage, is kept as the whole percentage.
ZeroPerf ==
    [total_cycles |-> 0, compute_cycles |-> 0, stall_cycles |-> 0,
     mac_ops |-> 0, layers_executed |-> 0, dma_transfers |-> 0,
     pe_utilization |-> 0]

\* fw_context_t after memset(&g_ctx, 0, ...): NPU_STATE_RESET is 0, FW_OK is 0
ZeroCtx ==
    [state |-> "NPU_STATE_RESET", last_error |-> "FW_OK",
     inst_ptr |-> Zero32, inst_count |-> Zero32, current_layer |-> 0,
     total_layers |-> 0, perf |-> ZeroPerf,
     done_callback |-> "NULL", error_callback |-> "NULL"]

\* runtime_config_t of a zero-initialised static
ZeroConfig ==
    [inst_buf_addr |-> Zero32, inst_buf_size |-> Zero32,
     weight_buf_addr |-> Zero32, weight_buf_size |-> Zero32,
     act_buf_addr |-> Zero32, act_buf_size |-> Zero32,
     enable_irq |-> FALSE, enable_perf |-> FALSE]

\* a dma_desc_t (npu_fw_types.h:161-172) whose other fields are zero, as the
\* designated initializers of npu_runtime_fw.c:212, :245 and :344 leave them
Desc(src_addr, dst_addr, length, channel) ==
    [src_addr |-> src_addr, dst_addr |-> dst_addr, length |-> length,
     src_stride |-> 0, dst_stride |-> 0, width |-> 0, height |-> 0,
     channel |-> channel, flags |-> {}]

NoCall ==
    [call |-> "none", loop |-> "none", mask |-> {}, expected |-> {},
     timeout_ms |-> Zero32, timeout |-> Zero32, elapsed |-> Zero32, polls |-> 0]

Idle == pc.call = "none"

\* the last call: its name and the value it returned
Returned(name, ret) == [name |-> name, ret |-> ret]

\* a call that has not returned yet
Pending(name) == [name |-> name, ret |-> "pending"]

(***************************************************************************)
(* Clients                                                                 *)
(* The program that calls the unit; a behaviour follows one of them,       *)
(* chosen in Init.  A client makes the calls of its part of the interface, *)
(* with its arguments:                                                     *)
(*   "control"  loads, start, stop, the waits and the layer execution,     *)
(*              on hardware whose performance counters stand at zero;      *)
(*   "perf"     the performance and DMA calls, with running counters;      *)
(*   "irq"      the callbacks and the interrupt handler;                   *)
(*   "model"    model loading.                                             *)
(***************************************************************************)
Clients == {"control", "perf", "irq", "model"}

\* the arguments of a call only client c makes
Of(c, args) == IF client = c THEN args ELSE {}

\* What the reads of the performance counter registers made by one call can
\* return: cycles, MAC operations, stall cycles and instruction count.  The
\* high words of the 64-bit counters read 0.
ZeroCounters == [cycles |-> 0, mac |-> 0, stall |-> 0, inst |-> 0]

RunningCounters == [cycles |-> 100, mac |-> 50, stall |-> 40, inst |-> 10]

PerfCounterValues ==
    IF client = "perf" THEN {ZeroCounters, RunningCounters} ELSE {ZeroCounters}

(***************************************************************************)
(* Firmware: inputs                                                        *)
(***************************************************************************)
NullPtr == Zero32
HostBuf == <<8192, 0>>      \* the address of a caller's buffer

\* configurations passed to npu_rt_init: an instruction buffer of 64 bytes
\* (8 entries) or of 8192 bytes (1024 entries), a 2 KB weight buffer, a
\* 4 KB activation buffer
FwConfigs ==
    {[inst_buf_addr |-> NPU_INST_BUF_BASE, inst_buf_size |-> U32(64),
      weight_buf_addr |-> NPU_WEIGHT_BUF_BASE, weight_buf_size |-> U32(2048),
      act_buf_addr |-> NPU_ACT_BUF_BASE, act_buf_size |-> U32(4096),
      enable_irq |-> FALSE, enable_perf |-> TRUE],
     [inst_buf_addr |-> NPU_INST_BUF_BASE, inst_buf_size |-> U32(8192),
      weight_buf_addr |-> NPU_WEIGHT_BUF_BASE, weight_buf_size |-> U32(2048),
      act_buf_addr |-> NPU_ACT_BUF_BASE, act_buf_size |-> U32(4096),
      enable_irq |-> TRUE, enable_perf |-> FALSE]}

\* arguments <<instructions, count>> of npu_rt_load_instructions
FwInstArgs ==
    {<<NullPtr, U32(100)>>} \cup
    {<<HostBuf, U32(n)>> : n \in {0, 100, 1024, 1025}}

\* arguments <<weights, size, offset>> of npu_rt_load_weights; the last
\* offset is 0xFFFFFFF0
FwWeightArgs ==
    {<<NullPtr, U32(16), U32(0)>>} \cup
    {<<HostBuf, size, offset>> :
        size \in {U32(0), U32(16), U32(1025), UINT32_MAX},
        offset \in {U32(0), U32(2040), <<W16 - 1, W16 - 16>>}}

\* arguments <<input, size>> of npu_rt_load_input
FwInputArgs ==
    {<<NullPtr, U32(16)>>} \cup
    {<<HostBuf, U32(n)>> : n \in {0, 16, 2048, 2049, 4097}}

\* timeouts a caller passes to npu_rt_wait / npu_rt_dma_wait; the last two
\* are 0xFFFFFFFA and 0xFFFFFFFF
FwTimeouts ==
    {U32(0), U32(1), U32(25), U32(1000), <<W16 - 1, W16 - 6>>, UINT32_MAX}

\* the timeouts of the clients other than control
ShortTimeouts == {U32(0), U32(25)}

\* callbacks a caller registers
FwCallbacks == {"NULL", "callback"}

\* descriptors passed to npu_rt_dma_start: a linear transfer, one that also
\* asks for the DMA interrupt, a linear transfer with the 2D fields set, a
\* 2D transfer of 8 x 8 bytes with length 64, and one with length 100
LinearDesc == Desc(HostBuf, NPU_ACT_BUF_BASE, U32(64), DMA_CH_ACT_IN)

DmaDescs ==
    { LinearDesc,
      [LinearDesc EXCEPT !.flags = DMA_FLAG_IRQ, !.channel = DMA_CH_ACT_OUT],
      [LinearDesc EXCEPT !.src_stride = 16, !.dst_stride = 8,
                         !.width = 8, !.height = 8],
      [LinearDesc EXCEPT !.flags = DMA_FLAG_2D,
                         !.src_stride = 16, !.dst_stride = 8,
                         !.width = 8, !.height = 8],
      [LinearDesc EXCEPT !.flags = DMA_FLAG_2D, !.length = U32(100),
                         !.src_stride = 16, !.dst_stride = 8,
                         !.width = 8, !.height = 8] }

\* arguments <<output, size, value read from REG_ACT_OUT_SIZE>> of
\* npu_rt_read_output
FwOutputArgs ==
    { <<NullPtr, U32(16), U32(16)>>, <<HostBuf, U32(0), U32(16)>>,
      <<HostBuf, U32(16), U32(16)>>, <<HostBuf, U32(64), U32(16)>> }

\* a model_header_t (npu_fw_types.h:146-155)
Header(magic, version, num_layers, weight_size, inst_count) ==
    [magic |-> magic, version |-> version, num_layers |-> num_layers,
     weight_size |-> weight_size, inst_count |-> inst_count]

\* a model of 3 layers, 8 instructions and 16 bytes of weights
GoodHeader == Header(<<20048, 21829>>, 256, 3, U32(16), U32(8))

\* arguments <<model_data, model_size, header at model_data>> of
\* npu_rt_load_model: a good model, a NULL pointer, a size below the header's,
\* a magic of 0x55504E45, version 0x0101, 2000 instructions, 4096 bytes of
\* weights, 2000 bytes of weights (loaded by DMA), and a binary of 32 bytes
\* that ends with its header
FwModelArgs ==
    { <<HostBuf, U32(4096), GoodHeader>>,
      <<NullPtr, U32(4096), GoodHeader>>,
      <<HostBuf, U32(16), GoodHeader>>,
      <<HostBuf, U32(4096), [GoodHeader EXCEPT !.magic = <<21840, 20037>>]>>,
      <<HostBuf, U32(4096), [GoodHeader EXCEPT !.version = 257]>>,
      <<HostBuf, U32(4096), [GoodHeader EXCEPT !.inst_count = U32(2000)]>>,
      <<HostBuf, U32(4096), [GoodHeader EXCEPT !.weight_size = U32(4096)]>>,
      <<HostBuf, U32(4096), [GoodHeader EXCEPT !.weight_size = U32(2000)]>>,
      <<HostBuf, U32(32), GoodHeader>> }

(***************************************************************************)
(* Firmware: the poll loops                                                *)
(***************************************************************************)
\* a loop condition without the case of timeout 0
wait_loop_cond_deadline_only(elapsed, timeout_us) == Lt32(elapsed, timeout_us)

\* npu_runtime_fw.c:38 and :407, the loop condition of wait_status and of
\* npu_rt_dma_wait
wait_loop_cond(elapsed, timeout_us) ==
    Lt32(elapsed, timeout_us) \/ timeout_us = Zero32

\* npu_runtime_fw.c:39-52, the body of wait_status for one status read:
\* the value returned, or "continue" when the loop delays and goes on
wait_status_body(status, mask, expected) ==
    IF status \cap mask = expected THEN "FW_OK"
    ELSE IF status \cap STATUS_ERROR # {} THEN "FW_ERROR_HW_FAULT"
    ELSE "continue"

\* npu_runtime_fw.c:408-419, the body of npu_rt_dma_wait for one status read
dma_wait_body(status) ==
    IF status \cap DMA_STATUS_DONE # {} THEN "FW_OK"
    ELSE IF status \cap DMA_STATUS_ERROR # {} THEN "FW_ERROR_DMA"
    ELSE "continue"

\* npu_runtime_fw.c:51-52
poll_interval == 10

\* The values a call of npu_rt_dma_wait(timeout_us) nested in another
\* operation can return: what some status read makes it return, or, with a
\* nonzero timeout, FW_ERROR_TIMEOUT.  The nested loops run up to 100000
\* polls and are not followed poll by poll.
NestedDmaWait(timeout_us) ==
    ({dma_wait_body(s) : s \in DmaStatusValues} \ {"continue"})
        \cup (IF timeout_us = Zero32 THEN {} ELSE {"FW_ERROR_TIMEOUT"})

\* The values a call of wait_status(mask, expected, timeout_us) nested in
\* npu_rt_stop can return, in the same way.
NestedWaitStatus(mask, expected, timeout_us) ==
    ({wait_status_body(s, mask, expected) : s \in StatusValues} \ {"continue"})
        \cup (IF timeout_us = Zero32 THEN {} ELSE {"FW_ERROR_TIMEOUT"})

\* what the DMA engine does during one operation that transfers by DMA:
\* whether npu_rt_dma_is_busy finds it busy, the result r0 of the nested
\* npu_rt_dma_wait(100000) made in that case, and the result r1 of the
\* nested npu_rt_dma_wait(1000000) after the transfer was started
DmaEnv ==
    {[busy |-> FALSE, r0 |-> "FW_OK", r1 |-> r1] :
        r1 \in NestedDmaWait(U32(1000000))}
    \cup {[busy |-> TRUE, r0 |-> "FW_OK", r1 |-> r1] :
        r1 \in NestedDmaWait(U32(1000000))}
    \cup {[busy |-> TRUE, r0 |-> r0, r1 |-> "FW_OK"] :
        r0 \in NestedDmaWait(U32(100000)) \ {"FW_OK"}}

\* bound of the model: DMA transfers started before the transfer counter is
\* reset (npu_rt_init, npu_rt_deinit, npu_rt_reset_perf)
MaxDmaTransfers == 2
\* bound of the model: quiet polls followed in a wait with timeout 0
MaxBlockingPolls == 3
\* bound of the model: quiet polls followed after ceil(timeout / 10) polls
MaxOverrun == 2
\* bound of the model: the longest wait followed poll by poll from its start
MaxStepwisePolls == 4
\* bound of the model: polls of a longer wait followed one by one before
\* ceil(timeout / 10) polls are reached
TailPolls == 2

\* whether the model follows one more quiet poll of loop p
MayPollOn(p) ==
    p.polls < (IF p.timeout = Zero32 /\ p.timeout_ms = Zero32
               THEN MaxBlockingPolls
               ELSE CeilDiv10(p.timeout) + MaxOverrun)

\* The consecutive quiet polls of loop p taken as one step: one, or, at the
\* start of a wait longer than MaxStepwisePolls, all but the last TailPolls
\* of the ceil(timeout / 10) polls.  After k < ceil(timeout / 10) quiet polls
\* elapsed is 10 * k < timeout, without wrap-around, so the loop condition
\* holds at each of the polls taken together.
QuietRun(p) ==
    IF p.polls = 0 /\ CeilDiv10(p.timeout) > MaxStepwisePolls
    THEN CeilDiv10(p.timeout) - TailPolls
    ELSE 1

(***************************************************************************)
(* Firmware: operations that do not block                                  *)
(* Each yields [ret, ctx, ctrl, wr]: the value returned, the context and   *)
(* control register after the call, and the writes performed.              *)
(***************************************************************************)
Out(ret, c, cv, wr) == [ret |-> ret, ctx |-> c, ctrl |-> cv, wr |-> wr]

\* npu_runtime_fw.c:392, desc->channel << DMA_CTRL_CH_SEL_SHIFT
ChannelBits(channel) ==
    {DMA_CTRL_CH_SEL_SHIFT + i : i \in {j \in 0..7 : (channel \div (2 ^ j)) % 2 = 1}}

\* a start that goes ahead whatever the wait for the engine returned
dma_start_refused_never(e) == FALSE

\* npu_runtime_fw.c:375-378: the engine is busy and the wait for it failed
dma_start_refused(e) == e.busy /\ e.r0 # "FW_OK"

\* a start that is not counted
count_transfer_never(perf) == perf

\* npu_runtime_fw.c:397
count_transfer(perf) == [perf EXCEPT !.dma_transfers = @ + 1]

\* npu_runtime_fw.c:391-394
dma_ctrl(desc) ==
    DMA_CTRL_START \cup ChannelBits(desc.channel)
        \cup (IF desc.flags \cap DMA_FLAG_2D # {} THEN DMA_CTRL_2D_MODE ELSE {})
        \cup (IF desc.flags \cap DMA_FLAG_IRQ # {} THEN DMA_CTRL_IRQ_EN ELSE {})

\* npu_runtime_fw.c:370-400 for a descriptor that is not NULL, with e what
\* the DMA engine does.  Yields [ret, ctx, wr].
npu_rt_dma_start(c, desc, e) ==
    IF dma_start_refused(e)
    THEN [ret |-> e.r0, ctx |-> c, wr |-> <<>>]
    ELSE [ret |-> "FW_OK",
          ctx |-> [c EXCEPT !.perf = count_transfer(@)],
          wr  |-> << Wr("REG_DMA_SRC", desc.src_addr),
                     Wr("REG_DMA_DST", desc.dst_addr),
                     Wr("REG_DMA_LEN", desc.length) >>
                  \o (IF desc.flags \cap DMA_FLAG_2D # {}
                      THEN << Wr("REG_DMA_SRC_STRIDE", U32(desc.src_stride)),
                              Wr("REG_DMA_DST_STRIDE", U32(desc.dst_stride)) >>
                      ELSE <<>>)
                  \o << WrBits("REG_DMA_CTRL", dma_ctrl(desc)) >>]

\* npu_runtime_fw.c:182-202
npu_rt_load_instructions(init, c, cv, instructions, count) ==
    IF ~init THEN Out("FW_ERROR_NOT_READY", c, cv, <<>>)
    ELSE IF instructions = NullPtr \/ count = Zero32
    THEN Out("FW_ERROR_INVALID_PARAM", c, cv, <<>>)
    ELSE IF Gt32(count, U32(NPU_INST_BUF_ENTRIES))
    THEN Out("FW_ERROR_OVERFLOW", c, cv, <<>>)
    ELSE Out("FW_OK",
             [c EXCEPT !.inst_count = count, !.inst_ptr = Zero32],
             cv,
             << Cp("inst_buf", Zero32, count),
                Wr("REG_INST_SIZE", count),
                Wr("REG_INST_PTR", Zero32) >>)

\* npu_runtime_fw.c:208
weights_overflow(offset, size, weight_buf_size) ==
    Gt32(Add32(offset, size), weight_buf_size)

\* npu_runtime_fw.c:204-236
npu_rt_load_weights(init, cfg, c, cv, weights, size, offset, e) ==
    IF ~init THEN Out("FW_ERROR_NOT_READY", c, cv, <<>>)
    ELSE IF weights = NullPtr \/ size = Zero32
    THEN Out("FW_ERROR_INVALID_PARAM", c, cv, <<>>)
    ELSE IF weights_overflow(offset, size, cfg.weight_buf_size)
    THEN Out("FW_ERROR_OVERFLOW", c, cv, <<>>)
    ELSE IF Gt32(size, U32(1024))
    THEN LET d == npu_rt_dma_start(c,
                        Desc(weights, Add32(NPU_WEIGHT_BUF_BASE, offset),
                             size, DMA_CH_WEIGHT), e)
         IN  Out(IF d.ret # "FW_OK" THEN d.ret ELSE e.r1, d.ctx, cv, d.wr)
    ELSE Out("FW_OK", c, cv,
             << Cp("weight_buf", offset, size),
                Wr("REG_WEIGHT_SIZE", size) >>)

\* npu_runtime_fw.c:238-262
npu_rt_load_input(init, cfg, c, cv, input, size, e) ==
    IF ~init THEN Out("FW_ERROR_NOT_READY", c, cv, <<>>)
    ELSE IF input = NullPtr \/ size = Zero32
    THEN Out("FW_ERROR_INVALID_PARAM", c, cv, <<>>)
    ELSE IF Gt32(size, Half32(cfg.act_buf_size))
    THEN Out("FW_ERROR_OVERFLOW", c, cv, <<>>)
    ELSE LET d == npu_rt_dma_start(c,
                        Desc(input, NPU_ACT_BUF_BASE, size, DMA_CH_ACT_IN), e)
         IN  IF d.ret # "FW_OK" THEN Out(d.ret, d.ctx, cv, d.wr)
             ELSE IF e.r1 # "FW_OK" THEN Out(e.r1, d.ctx, cv, d.wr)
             ELSE Out("FW_OK", d.ctx, cv,
                      d.wr \o << Wr("REG_ACT_IN_SIZE", size) >>)

\* a start that rejects nothing
start_busy_never(state) == FALSE

\* a register write of the mask alone
REG_SET_overwrite(cv, mask) == mask

\* npu_fw_regs.h:193, REG32(addr) |= (mask): the value written, with cv the
\* value the register holds
REG_SET(cv, mask) == cv \cup mask

\* npu_runtime_fw.c:271
start_busy(state) == state = "NPU_STATE_RUNNING"

\* npu_runtime_fw.c:268-286
npu_rt_start(init, c, cv) ==
    IF ~init THEN Out("FW_ERROR_NOT_READY", c, cv, <<>>)
    ELSE IF start_busy(c.state) THEN Out("FW_ERROR_BUSY", c, cv, <<>>)
    ELSE Out("FW_OK",
             [c EXCEPT !.inst_ptr = Zero32, !.current_layer = 0,
                       !.state = "NPU_STATE_RUNNING"],
             REG_SET(cv, CTRL_START),
             << Wr("REG_INST_PTR", Zero32),
                WrBits("REG_IRQ_STATUS", AllBits),
                WrBits("REG_CTRL", REG_SET(cv, CTRL_START)) >>)

\* npu_runtime_fw.c:334-355, with out_size what REG_ACT_OUT_SIZE returns;
\* REG_ACT_OUT_BASE returns what npu_rt_init wrote
npu_rt_read_output(init, cfg, c, cv, output, size, out_size, e) ==
    IF ~init THEN Out("FW_ERROR_NOT_READY", c, cv, <<>>)
    ELSE IF output = NullPtr \/ size = Zero32
    THEN Out("FW_ERROR_INVALID_PARAM", c, cv, <<>>)
    ELSE LET d == npu_rt_dma_start(c,
                        Desc(Add32(cfg.act_buf_addr, Half32(cfg.act_buf_size)),
                             output,
                             IF Gt32(size, out_size) THEN out_size ELSE size,
                             DMA_CH_ACT_OUT), e)
         IN  Out(IF d.ret # "FW_OK" THEN d.ret ELSE e.r1, d.ctx, cv, d.wr)

\* npu_fw_types.h:143-144; 0x4E505545, 0x0100
MODEL_MAGIC   == <<20048, 21829>>
MODEL_VERSION == 256

\* sizeof(model_header_t), npu_fw_types.h:146-155
sizeof_model_header_t == 32

\* npu_runtime_fw.c:144-180; model_data points to header
npu_rt_load_model(init, cfg, c, cv, model_data, model_size, header, e) ==
    IF ~init THEN Out("FW_ERROR_NOT_READY", c, cv, <<>>)
    ELSE IF model_data = NullPtr \/ Lt32(model_size, U32(sizeof_model_header_t))
    THEN Out("FW_ERROR_INVALID_PARAM", c, cv, <<>>)
    ELSE IF header.magic # MODEL_MAGIC
    THEN Out("FW_ERROR_INVALID_PARAM", c, cv, <<>>)
    ELSE IF header.version > MODEL_VERSION
    THEN Out("FW_ERROR_INVALID_PARAM", c, cv, <<>>)
    ELSE LET c1 == [c EXCEPT !.total_layers = header.num_layers,
                             !.inst_count = header.inst_count]
             data == Add32(model_data, U32(sizeof_model_header_t))
             l == npu_rt_load_instructions(init, c1, cv, data, header.inst_count)
             w == npu_rt_load_weights(init, cfg, l.ctx, cv,
                                      Add32(data, MulSmall32(header.inst_count, 8)),
                                      header.weight_size, Zero32, e)
         IN  IF l.ret # "FW_OK" THEN Out(l.ret, l.ctx, cv, l.wr)
             ELSE Out(w.ret, w.ctx, cv, l.wr \o w.wr)

\* npu_runtime_fw.c:83-118
npu_rt_init(config) ==
    [ctx |-> [ZeroCtx EXCEPT !.state = "NPU_STATE_IDLE"],
     wr  |-> << Wr("REG_INST_BASE", config.inst_buf_addr),
                Wr("REG_WEIGHT_BASE", config.weight_buf_addr),
                Wr("REG_ACT_IN_BASE", config.act_buf_addr),
                Wr("REG_ACT_OUT_BASE",
                   Add32(config.act_buf_addr, Half32(config.act_buf_size))),
                WrBits("REG_IRQ_EN",
                       IF config.enable_irq
                       THEN IRQ_DONE \cup IRQ_ERROR \cup IRQ_DMA_DONE
                       ELSE {}) >>
             \o (IF config.enable_perf
                 THEN << WrBits("REG_PERF_CTRL",
                                PERF_CTRL_ENABLE \cup PERF_CTRL_RESET) >>
                 ELSE <<>>)]

\* npu_runtime_fw.c:73-74, the float percentage, truncated
utilization(compute_cycles, total_cycles) ==
    (compute_cycles * 100) \div total_cycles

\* npu_runtime_fw.c:58-77, with p what the counter registers return
update_perf_stats(c, p) ==
    LET perf1 == [c.perf EXCEPT !.total_cycles = p.cycles,
                                !.mac_ops = p.mac,
                                !.stall_cycles = p.stall,
                                !.layers_executed = p.inst]
    IN  [c EXCEPT !.perf =
            IF perf1.total_cycles > 0
            THEN [perf1 EXCEPT
                    !.compute_cycles = perf1.total_cycles - perf1.stall_cycles,
                    !.pe_utilization =
                        utilization(perf1.total_cycles - perf1.stall_cycles,
                                    perf1.total_cycles)]
            ELSE perf1]

\* a wait that marks the run done whatever wait_status returned
npu_rt_wait_tail_always_done(status, c, p) ==
    [c EXCEPT !.state = "NPU_STATE_DONE"]

\* npu_runtime_fw.c:310-315, npu_rt_wait after wait_status returned status
npu_rt_wait_tail(status, c, p) ==
    IF status = "FW_OK"
    THEN update_perf_stats([c EXCEPT !.state = "NPU_STATE_DONE"], p)
    ELSE c

\* npu_runtime_fw.c:434-442 for stats that is not NULL
npu_rt_get_perf(c, cv, p) == Out("FW_OK", update_perf_stats(c, p), cv, <<>>)

\* npu_runtime_fw.c:444-451
npu_rt_reset_perf(c, cv) ==
    Out("void", [c EXCEPT !.perf = ZeroPerf], cv,
        << WrBits("REG_PERF_CTRL", PERF_CTRL_RESET),
           WrBits("REG_PERF_CTRL", PERF_CTRL_ENABLE) >>)

\* npu_runtime_fw.c:483-486
npu_rt_set_done_callback(c, callback) == [c EXCEPT !.done_callback = callback]

\* npu_runtime_fw.c:488-491
npu_rt_set_error_callback(c, callback) == [c EXCEPT !.error_callback = callback]

\* npu_runtime_fw.c:45-48, wait_status on a status read with the error bit
wait_status_fault(c) ==
    [c EXCEPT !.last_error = "FW_ERROR_HW_FAULT", !.state = "NPU_STATE_ERROR"]

\* npu_runtime_fw.c:288-302, with r the result of the nested
\* wait_status(STATUS_IDLE, STATUS_IDLE, 10000)
npu_rt_stop(init, c, cv, r) ==
    IF ~init THEN Out("FW_ERROR_NOT_READY", c, cv, <<>>)
    ELSE LET c1 == IF r = "FW_ERROR_HW_FAULT" THEN wait_status_fault(c) ELSE c
         IN  Out(r, [c1 EXCEPT !.state = "NPU_STATE_IDLE"],
                 (cv \cup CTRL_ABORT) \ CTRL_ABORT,
                 << WrBits("REG_CTRL", cv \cup CTRL_ABORT),
                    WrBits("REG_CTRL", (cv \cup CTRL_ABORT) \ CTRL_ABORT) >>)

\* npu_runtime_fw.c:457-481, with p what the counter registers return.
\* Yields the context after the handler.
npu_rt_irq_handler(c, irq_status, p) ==
    LET c1 == IF irq_status \cap IRQ_DONE # {}
              THEN update_perf_stats([c EXCEPT !.state = "NPU_STATE_DONE"], p)
              ELSE c
    IN  IF irq_status \cap IRQ_ERROR # {}
        THEN [c1 EXCEPT !.state = "NPU_STATE_ERROR",
                        !.last_error = "FW_ERROR_HW_FAULT"]
        ELSE c1

\* a handler that also reports an error as a completion
done_callbacks_on_error_too(c, irq_status) ==
    IF irq_status \cap (IRQ_DONE \cup IRQ_ERROR) # {} /\ c.done_callback # "NULL"
    THEN << Invoke("done_callback") >> ELSE <<>>

\* npu_runtime_fw.c:461-468, the call of the completion callback
done_callbacks(c, irq_status) ==
    IF irq_status \cap IRQ_DONE # {} /\ c.done_callback # "NULL"
    THEN << Invoke("done_callback") >> ELSE <<>>

\* npu_runtime_fw.c:470-477, the call of the error callback
error_callbacks(c, irq_status) ==
    IF irq_status \cap IRQ_ERROR # {} /\ c.error_callback # "NULL"
    THEN << Invoke("error_callback") >> ELSE <<>>

\* npu_runtime_fw.c:457-481, the callbacks invoked and the register written
irq_handler_effects(c, irq_status) ==
    done_callbacks(c, irq_status) \o error_callbacks(c, irq_status)
        \o << WrBits("REG_IRQ_STATUS", irq_status) >>

(***************************************************************************)
(* Firmware: layer execution (npu_layer_exec.c)                            *)
(***************************************************************************)
\* npu_fw_types.h:83-94, a tensor_desc_t of batch size 1 and dtype int8 at
\* address 0
Tensor(c, h, w) ==
    [addr |-> Zero32, n |-> 1, c |-> c, h |-> h, w |-> w, dtype |-> 0]

\* the tensor at another address
TensorAt(addr, t) == [t EXCEPT !.addr = addr]

\* a layer_desc_t with a k x k kernel, stride 1 and padding p on each side
Layer(type, act, in, out, k, p) ==
    [type |-> type, activation |-> act, input |-> in, output |-> out,
     kernel_h |-> k, kernel_w |-> k, stride_h |-> 1, stride_w |-> 1,
     pad_top |-> p, pad_bottom |-> p, pad_left |-> p, pad_right |-> p,
     weight |-> [Tensor(in.c, k, k) EXCEPT !.n = out.c],
     pool_h |-> k, pool_w |-> k, pool_stride_h |-> k, pool_stride_w |-> k,
     output_scale |-> 1, output_zero_point |-> 0]

\* the layers handed to the exec functions
ConvLayer ==
    Layer("LAYER_CONV2D", "ACT_RELU", Tensor(32, 8, 8), Tensor(17, 8, 8), 3, 1)
FcLayer ==
    Layer("LAYER_FC", "ACT_NONE", Tensor(4, 2, 2), Tensor(10, 1, 1), 1, 0)
PoolLayer ==
    Layer("LAYER_MAXPOOL", "ACT_NONE", Tensor(16, 8, 8), Tensor(16, 4, 4), 2, 0)
AddLayer ==
    Layer("LAYER_ADD", "ACT_RELU", Tensor(16, 4, 4), Tensor(16, 4, 4), 1, 0)

\* the calls <<function, layer>> of the exec functions
ExecCalls ==
    { <<"npu_rt_exec_layer", ConvLayer>>, <<"npu_rt_exec_layer", FcLayer>>,
      <<"npu_rt_exec_layer", PoolLayer>>, <<"npu_rt_exec_layer", AddLayer>>,
      <<"npu_rt_exec_conv", ConvLayer>>, <<"npu_rt_exec_fc", FcLayer>>,
      <<"npu_rt_exec_pool", PoolLayer>>, <<"npu_rt_exec_eltwise", AddLayer>> }

\* npu_fw_types.h:50-62, layer_type_t
LayerTypeValue ==
    [LAYER_CONV2D |-> 0, LAYER_DWCONV2D |-> 1, LAYER_FC |-> 2,
     LAYER_MAXPOOL |-> 3, LAYER_AVGPOOL |-> 4, LAYER_GLOBAL_AVGPOOL |-> 5,
     LAYER_ADD |-> 6, LAYER_CONCAT |-> 7, LAYER_SOFTMAX |-> 8]

\* npu_fw_types.h:68-77, activation_type_t
ActivationValue ==
    [ACT_NONE |-> 0, ACT_RELU |-> 1, ACT_RELU6 |-> 2, ACT_SIGMOID |-> 3]

\* npu_layer_exec.c:16-33
configure_layer_regs(layer) ==
    << Wr("REG_LAYER_TYPE", U32(LayerTypeValue[layer.type])),
       Wr("REG_LAYER_IN_CH", U32(layer.input.c)),
       Wr("REG_LAYER_OUT_CH", U32(layer.output.c)),
       Wr("REG_LAYER_IN_H", U32(layer.input.h)),
       Wr("REG_LAYER_IN_W", U32(layer.input.w)),
       Wr("REG_LAYER_OUT_H", U32(layer.output.h)),
       Wr("REG_LAYER_OUT_W", U32(layer.output.w)),
       Wr("REG_LAYER_KERNEL", U32(layer.kernel_h * 256 + layer.kernel_w)),
       Wr("REG_LAYER_STRIDE", U32(layer.stride_h * 256 + layer.stride_w)),
       Wr("REG_LAYER_PADDING", << layer.pad_top * 256 + layer.pad_bottom,
                                  layer.pad_left * 256 + layer.pad_right >>),
       Wr("REG_LAYER_ACT_TYPE", U32(ActivationValue[layer.activation])),
       Wr("REG_LAYER_QUANT_SCALE", U32(layer.output_scale)),
       Wr("REG_LAYER_QUANT_ZERO", U32(layer.output_zero_point)) >>

\* npu_layer_exec.c:95-137, the value of inst_idx after the convolution
\* sequence was built: 1 clear, per output-channel tile a DMA load, a wait,
\* a load-weight / compute pair per input-channel tile, a drain, and a clear
\* between tiles, then the halt
conv_inst_idx(layer) ==
    LET oc_tiles == (layer.output.c + NPU_PE_COLS - 1) \div NPU_PE_COLS
        ic_tiles == (layer.input.c + NPU_PE_ROWS - 1) \div NPU_PE_ROWS
    IN  1 + oc_tiles * (2 + 2 * ic_tiles + 1) + (oc_tiles - 1) + 1

\* npu_layer_exec.c:154-170, the layer npu_rt_exec_fc hands to
\* npu_rt_exec_conv; input.c is a uint16_t
fc_as_conv(layer) ==
    [layer EXCEPT !.type = "LAYER_CONV2D", !.kernel_h = 1, !.kernel_w = 1,
                  !.stride_h = 1, !.stride_w = 1,
                  !.pad_top = 0, !.pad_bottom = 0,
                  !.pad_left = 0, !.pad_right = 0,
                  !.input = [layer.input EXCEPT
                                !.c = (layer.input.c * layer.input.h
                                         * layer.input.w) % W16,
                                !.h = 1, !.w = 1],
                  !.output = [layer.output EXCEPT !.h = 1, !.w = 1]]

\* npu_layer_exec.c:140-146 (and :215-221, :256-262): load the sequence and
\* start it; ret is "wait" when the call goes on to npu_rt_wait(0)
load_and_start(init, c, cv, regwr, inst_idx) ==
    LET l == npu_rt_load_instructions(init, c, cv, HostBuf, U32(inst_idx))
        st == npu_rt_start(init, l.ctx, cv)
    IN  IF l.ret # "FW_OK" THEN Out(l.ret, c, cv, regwr)
        ELSE IF st.ret # "FW_OK" THEN Out(st.ret, st.ctx, cv, regwr \o l.wr)
        ELSE Out("wait", st.ctx, st.ctrl, regwr \o l.wr \o st.wr)

\* npu_layer_exec.c:69-147
npu_rt_exec_conv(init, c, cv, layer) ==
    load_and_start(init, c, cv, configure_layer_regs(layer),
                   conv_inst_idx(layer))

\* npu_layer_exec.c:149-173
npu_rt_exec_fc(init, c, cv, layer) ==
    npu_rt_exec_conv(init, c, cv, fc_as_conv(layer))

\* npu_layer_exec.c:175-222: six instructions
npu_rt_exec_pool(init, c, cv, layer) ==
    load_and_start(init, c, cv,
        configure_layer_regs(layer) \o
            << Wr("REG_LAYER_POOL_TYPE",
                  IF layer.type = "LAYER_MAXPOOL" THEN U32(POOL_TYPE_MAX)
                  ELSE IF layer.type = "LAYER_GLOBAL_AVGPOOL"
                  THEN U32(POOL_TYPE_GLOBAL_AVG) ELSE U32(POOL_TYPE_AVG)) >>,
        6)

\* npu_layer_exec.c:224-263: eight instructions
npu_rt_exec_eltwise(init, c, cv, layer) ==
    load_and_start(init, c, cv, configure_layer_regs(layer), 8)

\* npu_layer_exec.c:50-67
npu_rt_exec_layer(init, c, cv, layer) ==
    IF layer.type \in {"LAYER_CONV2D", "LAYER_DWCONV2D"}
    THEN npu_rt_exec_conv(init, c, cv, layer)
    ELSE IF layer.type = "LAYER_FC" THEN npu_rt_exec_fc(init, c, cv, layer)
    ELSE IF layer.type \in {"LAYER_MAXPOOL", "LAYER_AVGPOOL",
                            "LAYER_GLOBAL_AVGPOOL"}
    THEN npu_rt_exec_pool(init, c, cv, layer)
    ELSE Out("FW_ERROR_INVALID_OP", c, cv, <<>>)

Exec(fn, init, c, cv, layer) ==
    CASE fn = "npu_rt_exec_layer"   -> npu_rt_exec_layer(init, c, cv, layer)
      [] fn = "npu_rt_exec_conv"    -> npu_rt_exec_conv(init, c, cv, layer)
      [] fn = "npu_rt_exec_fc"      -> npu_rt_exec_fc(init, c, cv, layer)
      [] fn = "npu_rt_exec_pool"    -> npu_rt_exec_pool(init, c, cv, layer)
      [] fn = "npu_rt_exec_eltwise" -> npu_rt_exec_eltwise(init, c, cv, layer)

(***************************************************************************)
(* Firmware: the calls                                                     *)
(* A call whose timeout the caller chooses (npu_rt_wait, npu_rt_dma_wait,  *)
(* the wait that ends an exec function) is followed poll by poll: pc holds *)
(* its loop.  Every other call is one step.                                *)
(***************************************************************************)
\* no runtime library object: npu_runtime_create has not been called
NoRuntime == [initialized |-> FALSE, max_models |-> 0, models |-> <<>>,
              num_models |-> 0]

Fw == unit = "fw"

\* a call that returns without blocking: o is its [ret, ctx, ctrl, wr]
FwReturn(name, o) ==
    /\ g_ctx' = o.ctx
    /\ ctrl' = o.ctrl
    /\ writes' = o.wr
    /\ op' = Returned(name, o.ret)
    /\ UNCHANGED <<unit, client, npu, runtime, inst, exec, g_initialized, g_config, ctx, pc>>

\* entry into wait_status / npu_rt_dma_wait: elapsed = 0
Loop(call, loop, mask, expected, timeout_us) ==
    [call |-> call, loop |-> loop, mask |-> mask, expected |-> expected,
     timeout_ms |-> Zero32, timeout |-> timeout_us, elapsed |-> Zero32,
     polls |-> 0]

Do_npu_rt_init_null ==
    /\ Fw /\ Idle
    /\ op' = Returned("npu_rt_init", "FW_ERROR_INVALID_PARAM")
    /\ writes' = <<>>
    /\ UNCHANGED <<unit, client, npu, runtime, inst, exec, g_initialized, g_ctx, g_config, ctrl, ctx, pc>>

Do_npu_rt_init(config) ==
    /\ Fw /\ Idle
    /\ g_config' = config
    /\ g_ctx' = npu_rt_init(config).ctx
    /\ writes' = npu_rt_init(config).wr
    /\ g_initialized' = TRUE
    /\ op' = Returned("npu_rt_init", "FW_OK")
    /\ UNCHANGED <<unit, client, npu, runtime, inst, exec, ctrl, ctx, pc>>

\* npu_runtime_fw.c:120-133
Do_npu_rt_deinit ==
    /\ Fw /\ Idle
    /\ op' = Returned("npu_rt_deinit", "void")
    /\ IF ~g_initialized
       THEN /\ writes' = <<>>
            /\ UNCHANGED <<g_initialized, g_ctx, ctrl>>
       ELSE \E r \in NestedWaitStatus(STATUS_IDLE, STATUS_IDLE, U32(10000)) :
               LET o == npu_rt_stop(g_initialized, g_ctx, ctrl, r)
               IN  /\ writes' = Append(o.wr, WrBits("REG_IRQ_EN", {}))
                   /\ ctrl' = o.ctrl
                   /\ g_ctx' = ZeroCtx
                   /\ g_initialized' = FALSE
    /\ UNCHANGED <<unit, client, npu, runtime, inst, exec, g_config, ctx, pc>>

Do_npu_rt_load_instructions(instructions, count) ==
    /\ Fw /\ Idle
    /\ FwReturn("npu_rt_load_instructions",
                npu_rt_load_instructions(g_initialized, g_ctx, ctrl,
                                         instructions, count))

\* the transfer counter is below the bound of the model
MayTransfer == g_ctx.perf.dma_transfers < MaxDmaTransfers

Do_npu_rt_load_weights(weights, size, offset) ==
    /\ Fw /\ Idle /\ MayTransfer
    /\ \E o \in {npu_rt_load_weights(g_initialized, g_config, g_ctx, ctrl,
                                       weights, size, offset, e) : e \in DmaEnv} :
          FwReturn("npu_rt_load_weights", o)

Do_npu_rt_load_input(input, size) ==
    /\ Fw /\ Idle /\ MayTransfer
    /\ \E o \in {npu_rt_load_input(g_initialized, g_config, g_ctx, ctrl,
                                     input, size, e) : e \in DmaEnv} :
          FwReturn("npu_rt_load_input", o)

Do_npu_rt_start ==
    /\ Fw /\ Idle
    /\ FwReturn("npu_rt_start", npu_rt_start(g_initialized, g_ctx, ctrl))

Do_npu_rt_stop ==
    /\ Fw /\ Idle
    /\ \E r \in NestedWaitStatus(STATUS_IDLE, STATUS_IDLE, U32(10000)) :
          FwReturn("npu_rt_stop", npu_rt_stop(g_initialized, g_ctx, ctrl, r))

\* npu_runtime_fw.c:304-308
Do_npu_rt_wait(timeout_us) ==
    /\ Fw /\ Idle
    /\ writes' = <<>>
    /\ IF ~g_initialized
       THEN /\ op' = Returned("npu_rt_wait", "FW_ERROR_NOT_READY")
            /\ pc' = pc
       ELSE /\ op' = Pending("npu_rt_wait")
            /\ pc' = Loop("npu_rt_wait", "wait_status",
                          STATUS_DONE \cup STATUS_ERROR, STATUS_DONE,
                          timeout_us)
    /\ UNCHANGED <<unit, client, npu, runtime, inst, exec, g_initialized, g_ctx, g_config, ctrl, ctx>>

\* npu_runtime_fw.c:402-405: no check of g_initialized
Do_npu_rt_dma_wait(timeout_us) ==
    /\ Fw /\ Idle
    /\ writes' = <<>>
    /\ op' = Pending("npu_rt_dma_wait")
    /\ pc' = Loop("npu_rt_dma_wait", "dma_wait", {}, {}, timeout_us)
    /\ UNCHANGED <<unit, client, npu, runtime, inst, exec, g_initialized, g_ctx, g_config, ctrl, ctx>>

Do_exec(fn, layer) ==
    /\ Fw /\ Idle
    /\ LET o == Exec(fn, g_initialized, g_ctx, ctrl, layer)
       IN  IF o.ret = "wait"
           THEN /\ g_ctx' = o.ctx
                /\ ctrl' = o.ctrl
                /\ writes' = o.wr
                /\ op' = Pending(fn)
                /\ pc' = Loop(fn, "wait_status",
                              STATUS_DONE \cup STATUS_ERROR, STATUS_DONE,
                              Zero32)
                /\ UNCHANGED <<unit, client, npu, runtime, inst, exec, g_initialized, g_config, ctx>>
           ELSE FwReturn(fn, o)

Do_npu_rt_irq_handler ==
    /\ Fw /\ Idle
    /\ \E irq_status \in IrqStatusValues, p \in PerfCounterValues :
          /\ g_ctx' = npu_rt_irq_handler(g_ctx, irq_status, p)
          /\ writes' = irq_handler_effects(g_ctx, irq_status)
    /\ op' = Returned("npu_rt_irq_handler", "void")
    /\ UNCHANGED <<unit, client, npu, runtime, inst, exec, g_initialized, g_config, ctrl, ctx, pc>>

\* npu_runtime_fw.c:434-442
Do_npu_rt_get_perf(stats) ==
    /\ Fw /\ Idle
    /\ IF stats = NullPtr
       THEN FwReturn("npu_rt_get_perf",
                     Out("FW_ERROR_INVALID_PARAM", g_ctx, ctrl, <<>>))
       ELSE \E p \in PerfCounterValues :
               FwReturn("npu_rt_get_perf", npu_rt_get_perf(g_ctx, ctrl, p))

Do_npu_rt_reset_perf ==
    /\ Fw /\ Idle
    /\ FwReturn("npu_rt_reset_perf", npu_rt_reset_perf(g_ctx, ctrl))

Do_npu_rt_set_done_callback(callback) ==
    /\ Fw /\ Idle
    /\ FwReturn("npu_rt_set_done_callback",
                Out("void", npu_rt_set_done_callback(g_ctx, callback), ctrl, <<>>))

Do_npu_rt_set_error_callback(callback) ==
    /\ Fw /\ Idle
    /\ FwReturn("npu_rt_set_error_callback",
                Out("void", npu_rt_set_error_callback(g_ctx, callback), ctrl, <<>>))

\* npu_runtime_fw.c:372
Do_npu_rt_dma_start_null ==
    /\ Fw /\ Idle /\ client = "perf"
    /\ FwReturn("npu_rt_dma_start",
                Out("FW_ERROR_INVALID_PARAM", g_ctx, ctrl, <<>>))

Do_npu_rt_dma_start(desc) ==
    /\ Fw /\ Idle /\ MayTransfer
    /\ \E d \in {npu_rt_dma_start(g_ctx, desc, e) : e \in DmaEnv} :
          FwReturn("npu_rt_dma_start", Out(d.ret, d.ctx, ctrl, d.wr))

Do_npu_rt_read_output(output, size, out_size) ==
    /\ Fw /\ Idle /\ MayTransfer
    /\ \E o \in {npu_rt_read_output(g_initialized, g_config, g_ctx, ctrl,
                                      output, size, out_size, e) : e \in DmaEnv} :
          FwReturn("npu_rt_read_output", o)

Do_npu_rt_load_model(model_data, model_size, header) ==
    /\ Fw /\ Idle /\ MayTransfer
    /\ \E o \in {npu_rt_load_model(g_initialized, g_config, g_ctx, ctrl,
                                     model_data, model_size, header, e) :
                     e \in DmaEnv} :
          FwReturn("npu_rt_load_model", o)

\* the return of the blocking call pc.call once its loop ended with status
\* and context c
FwFinish(status, c) ==
    /\ pc' = NoCall
    /\ g_ctx' = c
    /\ op' = Returned(pc.call, status)
    /\ UNCHANGED <<unit, client, npu, runtime, inst, exec, g_initialized, g_config, ctrl, ctx, writes>>

\* one more round of the loop, delay_us(poll_interval) and
\* elapsed += poll_interval, or QuietRun(pc) such rounds
PollOn ==
    /\ MayPollOn(pc)
    /\ pc' = [pc EXCEPT !.elapsed = Add32(@, MulSmall32(U32(QuietRun(pc)),
                                                       poll_interval)),
                        !.polls = @ + QuietRun(pc)]
    /\ UNCHANGED <<unit, client, npu, runtime, inst, exec, g_initialized, g_ctx, g_config, ctrl, ctx, op, writes>>

\* npu_runtime_fw.c:38-55 and :310-315: wait_status, called by npu_rt_wait,
\* from the test of its loop condition: the loop ends with FW_ERROR_TIMEOUT,
\* or reads the status register once
wait_status ==
    /\ Fw /\ pc.loop = "wait_status"
    /\ IF ~wait_loop_cond(pc.elapsed, pc.timeout)
       THEN FwFinish("FW_ERROR_TIMEOUT",
                     npu_rt_wait_tail("FW_ERROR_TIMEOUT", g_ctx, ZeroCounters))
       ELSE \E r \in {wait_status_body(status, pc.mask, pc.expected) :
                        status \in StatusValues} :
                   CASE r = "continue" -> PollOn
                     [] r = "FW_ERROR_HW_FAULT" ->
                          FwFinish(r, npu_rt_wait_tail(r, wait_status_fault(g_ctx),
                                                       ZeroCounters))
                     [] OTHER ->
                          \E p \in PerfCounterValues :
                              FwFinish(r, npu_rt_wait_tail(r, g_ctx, p))

\* npu_runtime_fw.c:407-422, npu_rt_dma_wait from the test of the loop
\* condition
dma_wait ==
    /\ Fw /\ pc.loop = "dma_wait"
    /\ IF ~wait_loop_cond(pc.elapsed, pc.timeout)
       THEN FwFinish("FW_ERROR_TIMEOUT", g_ctx)
       ELSE \E r \in {dma_wait_body(status) : status \in DmaStatusValues} :
               IF r = "continue" THEN PollOn
               ELSE FwFinish(r, g_ctx)

\* the calls of the firmware's clients
FwNext ==
    \/ Do_npu_rt_init_null
    \/ \E config \in FwConfigs : Do_npu_rt_init(config)
    \/ Do_npu_rt_deinit
    \/ \E a \in Of("control", FwInstArgs) :
          Do_npu_rt_load_instructions(a[1], a[2])
    \/ \E a \in Of("control", FwWeightArgs) :
          Do_npu_rt_load_weights(a[1], a[2], a[3])
    \/ \E a \in Of("control", FwInputArgs) \cup Of("perf", {<<HostBuf, U32(16)>>}) :
          Do_npu_rt_load_input(a[1], a[2])
    \/ Do_npu_rt_start
    \/ Do_npu_rt_stop
    \/ \E timeout_us \in (IF client = "control" THEN FwTimeouts
                          ELSE ShortTimeouts) : Do_npu_rt_wait(timeout_us)
    \/ \E timeout_us \in Of("control", FwTimeouts) \cup Of("perf", ShortTimeouts) :
          Do_npu_rt_dma_wait(timeout_us)
    \/ \E a \in Of("control", ExecCalls) \cup Of("irq", {<<"npu_rt_exec_pool", PoolLayer>>}) :
          Do_exec(a[1], a[2])
    \/ Do_npu_rt_irq_handler
    \/ \E stats \in Of("perf", {NullPtr, HostBuf}) : Do_npu_rt_get_perf(stats)
    \/ client = "perf" /\ Do_npu_rt_reset_perf
    \/ \E callback \in Of("irq", FwCallbacks) :
          Do_npu_rt_set_done_callback(callback)
    \/ \E callback \in Of("irq", FwCallbacks) :
          Do_npu_rt_set_error_callback(callback)
    \/ Do_npu_rt_dma_start_null
    \/ \E desc \in Of("perf", DmaDescs) : Do_npu_rt_dma_start(desc)
    \/ \E a \in Of("perf", FwOutputArgs) : Do_npu_rt_read_output(a[1], a[2], a[3])
    \/ \E a \in Of("model", FwModelArgs) : Do_npu_rt_load_model(a[1], a[2], a[3])
    \/ wait_status
    \/ dma_wait

(***************************************************************************)
(* Driver: register bits (npu_driver.h) and context (npu_driver.c:48-62)   *)
(***************************************************************************)
NPU_CTRL_ENABLE == {0}
NPU_CTRL_START  == {1}
NPU_CTRL_RESET  == {2}
NPU_CTRL_IRQ_EN == {3}

NPU_STATUS_IDLE    == {0}
NPU_STATUS_RUNNING == {1}
NPU_STATUS_DONE    == {2}
NPU_STATUS_ERROR   == {3}

NPU_IRQ_DONE  == {0}
NPU_IRQ_ERROR == {1}

\* npu_perf_stats_t (npu_driver.h:119-125) after memset
ZeroStats ==
    [total_cycles |-> 0, instructions_executed |-> 0, mac_operations |-> 0,
     stall_cycles |-> 0, utilization |-> 0]

\* no driver context: npu_init has not been called
NoContext ==
    [state |-> "NPU_STATE_UNINITIALIZED",
     config |-> [inst_buf_addr |-> Zero32, inst_buf_size |-> Zero32,
                 weight_buf_addr |-> Zero32, weight_buf_size |-> Zero32,
                 act_buf_addr |-> Zero32, act_buf_size |-> Zero32],
     callback |-> "NULL", perf_stats |-> ZeroStats]

\* configurations passed to npu_init
DrvConfigs ==
    {[inst_buf_addr |-> NPU_INST_BUF_BASE, inst_buf_size |-> U32(n),
      weight_buf_addr |-> NPU_WEIGHT_BUF_BASE, weight_buf_size |-> U32(2048),
      act_buf_addr |-> NPU_ACT_BUF_BASE, act_buf_size |-> U32(4096)] :
        n \in {64, 8192}}

\* arguments <<instructions, num_instructions>> of npu_load_instructions;
\* the last count is 0x20000001
DrvInstArgs ==
    {<<NullPtr, U32(8)>>} \cup
    {<<HostBuf, n>> : n \in {U32(0), U32(8), U32(9), U32(1024),
                             <<8192, 1>>}}

\* arguments <<weights, size>> of npu_load_weights
DrvWeightArgs ==
    {<<NullPtr, U32(16)>>} \cup
    {<<HostBuf, n>> : n \in {U32(0), U32(16), U32(2048), U32(2049), UINT32_MAX}}

\* arguments <<input, size>> of npu_load_input
DrvInputArgs ==
    {<<NullPtr, U32(16)>>} \cup
    {<<HostBuf, n>> : n \in {U32(0), U32(16), U32(4096), U32(4097), UINT32_MAX}}

\* timeouts (ms) a caller passes to npu_run / npu_wait; the last is
\* 0x20000000
DrvTimeouts == {U32(0), U32(1), <<8192, 0>>}

\* callbacks a caller passes to npu_run_async
DrvCallbacks == {"NULL", "callback"}

(***************************************************************************)
(* Driver: operations                                                      *)
(***************************************************************************)
\* npu_driver.c:77
wait_for_idle_timeout_us(timeout_ms) == MulSmall32(timeout_ms, 1000)

\* npu_driver.c:80
wait_for_idle_cond(elapsed, timeout_us, timeout_ms) ==
    Lt32(elapsed, timeout_us) \/ timeout_ms = Zero32

\* npu_driver.c:81-96, the body of wait_for_idle for one status read: the
\* value returned, or "continue"
wait_for_idle_body(status) ==
    IF status \cap NPU_STATUS_ERROR # {} THEN "NPU_ERROR_HW_ERROR"
    ELSE IF status \cap NPU_STATUS_DONE # {} THEN "NPU_OK"
    ELSE IF status \cap NPU_STATUS_IDLE # {} THEN "NPU_OK"
    ELSE "continue"

\* npu_driver.c:84, :89, :94: the state wait_for_idle sets when it returns r
wait_for_idle_state(r, c) ==
    IF r = "NPU_ERROR_HW_ERROR" THEN [c EXCEPT !.state = "NPU_STATE_ERROR"]
    ELSE IF r = "NPU_OK" THEN [c EXCEPT !.state = "NPU_STATE_IDLE"]
    ELSE c

\* npu_driver.c:148-170
npu_reset(c) ==
    Out("NPU_OK",
        [c EXCEPT !.perf_stats = ZeroStats, !.state = "NPU_STATE_IDLE"],
        NPU_CTRL_ENABLE,
        << WrBits("NPU_REG_CTRL", NPU_CTRL_RESET),
           WrBits("NPU_REG_CTRL", NPU_CTRL_ENABLE),
           WrBits("NPU_REG_IRQ_STATUS", AllBits) >>)

\* npu_driver.c:109-138
npu_init(config) ==
    LET c == [NoContext EXCEPT !.config = config]
    IN  [npu_reset(c) EXCEPT !.ctx.state = "NPU_STATE_IDLE"]

\* npu_driver.c:400-407
npu_abort(c) == npu_reset(c)

\* npu_driver.c:199, :229, :254, :338, :374
drv_busy(state) == state = "NPU_STATE_RUNNING"

\* npu_driver.c:203
inst_bytes(num_instructions) == MulSmall32(num_instructions, 8)

\* npu_driver.c:192-220
npu_load_instructions(c, cv, instructions, num_instructions) ==
    IF instructions = NullPtr \/ num_instructions = Zero32
    THEN Out("NPU_ERROR_INVALID_PARAM", c, cv, <<>>)
    ELSE IF drv_busy(c.state) THEN Out("NPU_ERROR_BUSY", c, cv, <<>>)
    ELSE IF Gt32(inst_bytes(num_instructions), c.config.inst_buf_size)
    THEN Out("NPU_ERROR_NO_MEMORY", c, cv, <<>>)
    ELSE Out("NPU_OK", c, cv,
             << Cp("inst_buf", Zero32, num_instructions),
                Wr("NPU_REG_INST_BASE", c.config.inst_buf_addr),
                Wr("NPU_REG_INST_SIZE", num_instructions),
                Wr("NPU_REG_INST_PTR", Zero32) >>)

\* npu_driver.c:222-245
npu_load_weights(c, cv, weights, size) ==
    IF weights = NullPtr \/ size = Zero32
    THEN Out("NPU_ERROR_INVALID_PARAM", c, cv, <<>>)
    ELSE IF drv_busy(c.state) THEN Out("NPU_ERROR_BUSY", c, cv, <<>>)
    ELSE IF Gt32(size, c.config.weight_buf_size)
    THEN Out("NPU_ERROR_NO_MEMORY", c, cv, <<>>)
    ELSE Out("NPU_OK", c, cv,
             << Cp("weight_buf", Zero32, size),
                Wr("NPU_REG_WEIGHT_BASE", c.config.weight_buf_addr),
                Wr("NPU_REG_WEIGHT_SIZE", size) >>)

\* npu_driver.c:247-270
npu_load_input(c, cv, input, size) ==
    IF input = NullPtr \/ size = Zero32
    THEN Out("NPU_ERROR_INVALID_PARAM", c, cv, <<>>)
    ELSE IF drv_busy(c.state) THEN Out("NPU_ERROR_BUSY", c, cv, <<>>)
    ELSE IF Gt32(size, c.config.act_buf_size)
    THEN Out("NPU_ERROR_NO_MEMORY", c, cv, <<>>)
    ELSE Out("NPU_OK", c, cv,
             << Cp("act_buf", Zero32, size),
                Wr("NPU_REG_ACT_IN_BASE", c.config.act_buf_addr),
                Wr("NPU_REG_ACT_IN_SIZE", size) >>)

\* npu_driver.c:428-442
npu_reset_perf_counters(c, cv) ==
    Out("NPU_OK", [c EXCEPT !.perf_stats = ZeroStats], cv,
        << Wr("NPU_REG_PERF_CYCLES", Zero32), Wr("NPU_REG_PERF_INST", Zero32),
           Wr("NPU_REG_PERF_MAC", Zero32), Wr("NPU_REG_PERF_STALL", Zero32) >>)

\* npu_driver.c:413-426 for stats that is not NULL, with p what the counter
\* registers return
npu_get_perf_stats(c, cv, p) ==
    Out("NPU_OK",
        [c EXCEPT !.perf_stats.total_cycles = p.cycles,
                  !.perf_stats.instructions_executed = p.inst,
                  !.perf_stats.mac_operations = p.mac,
                  !.perf_stats.stall_cycles = p.stall],
        cv, <<>>)

\* npu_driver.c:333-347, npu_run up to its call of wait_for_idle; ret is
\* "wait" when it goes on to wait
npu_run(c, cv) ==
    IF drv_busy(c.state) THEN Out("NPU_ERROR_BUSY", c, cv, <<>>)
    ELSE LET r == npu_reset_perf_counters(c, cv)
         IN  Out("wait", [r.ctx EXCEPT !.state = "NPU_STATE_RUNNING"],
                 NPU_CTRL_ENABLE \cup NPU_CTRL_START,
                 r.wr \o
                 << WrBits("NPU_REG_CTRL", NPU_CTRL_ENABLE \cup NPU_CTRL_START) >>)

\* npu_driver.c:367-390
npu_run_async(c, cv, callback) ==
    IF drv_busy(c.state) THEN Out("NPU_ERROR_BUSY", c, cv, <<>>)
    ELSE Out("NPU_OK",
             [c EXCEPT !.callback = callback, !.state = "NPU_STATE_RUNNING"],
             NPU_CTRL_ENABLE \cup NPU_CTRL_START \cup NPU_CTRL_IRQ_EN,
             << WrBits("NPU_REG_IRQ_ENABLE", NPU_IRQ_DONE \cup NPU_IRQ_ERROR),
                WrBits("NPU_REG_CTRL",
                       NPU_CTRL_ENABLE \cup NPU_CTRL_START \cup NPU_CTRL_IRQ_EN) >>)

\* npu_driver.c:457-484, with p what the counter registers return.  Yields
\* the context after the handler.
\* npu_driver.c:480-483, the call of the user callback with the status of
\* the interrupt
irq_callback(c, irq_status) ==
    IF c.callback = "NULL" THEN <<>>
    ELSE IF irq_status \cap NPU_IRQ_ERROR # {}
    THEN << Invoke("callback(NPU_ERROR_HW_ERROR)") >>
    ELSE << Invoke("callback(NPU_OK)") >>

npu_irq_handler(c, irq_status, p) ==
    IF irq_status \cap NPU_IRQ_ERROR # {}
    THEN [c EXCEPT !.state = "NPU_STATE_ERROR"]
    ELSE IF irq_status \cap NPU_IRQ_DONE # {}
    THEN [c EXCEPT !.state = "NPU_STATE_IDLE",
                   !.perf_stats.total_cycles = p.cycles,
                   !.perf_stats.instructions_executed = p.inst]
    ELSE c

(***************************************************************************)
(* Driver: the calls.  npu_run and npu_wait are followed poll by poll.     *)
(***************************************************************************)
Drv == unit = "drv"

HasContext == ctx.state # "NPU_STATE_UNINITIALIZED"

DrvReturn(name, o) ==
    /\ ctx' = o.ctx
    /\ ctrl' = o.ctrl
    /\ writes' = o.wr
    /\ op' = Returned(name, o.ret)
    /\ UNCHANGED <<unit, client, npu, runtime, inst, exec, g_initialized, g_ctx, g_config, pc>>

\* entry into wait_for_idle
IdleLoop(call, timeout_ms) ==
    [call |-> call, loop |-> "wait_for_idle", mask |-> {}, expected |-> {},
     timeout_ms |-> timeout_ms, timeout |-> wait_for_idle_timeout_us(timeout_ms),
     elapsed |-> Zero32, polls |-> 0]

Do_npu_init(config) ==
    /\ Drv /\ Idle /\ ~HasContext
    /\ DrvReturn("npu_init", npu_init(config))

Do_npu_reset ==
    /\ Drv /\ Idle /\ HasContext
    /\ DrvReturn("npu_reset", npu_reset(ctx))

Do_npu_abort ==
    /\ Drv /\ Idle /\ HasContext
    /\ DrvReturn("npu_abort", npu_abort(ctx))

Do_npu_load_instructions(instructions, num_instructions) ==
    /\ Drv /\ Idle /\ HasContext
    /\ DrvReturn("npu_load_instructions",
                 npu_load_instructions(ctx, ctrl, instructions, num_instructions))

Do_npu_load_weights(weights, size) ==
    /\ Drv /\ Idle /\ HasContext
    /\ DrvReturn("npu_load_weights", npu_load_weights(ctx, ctrl, weights, size))

Do_npu_load_input(input, size) ==
    /\ Drv /\ Idle /\ HasContext
    /\ DrvReturn("npu_load_input", npu_load_input(ctx, ctrl, input, size))

Do_npu_run(timeout_ms) ==
    /\ Drv /\ Idle /\ HasContext
    /\ LET o == npu_run(ctx, ctrl)
       IN  IF o.ret = "wait"
           THEN /\ ctx' = o.ctx
                /\ ctrl' = o.ctrl
                /\ writes' = o.wr
                /\ op' = Pending("npu_run")
                /\ pc' = IdleLoop("npu_run", timeout_ms)
                /\ UNCHANGED <<unit, client, npu, runtime, inst, exec, g_initialized, g_ctx, g_config>>
           ELSE DrvReturn("npu_run", o)

Do_npu_run_async(callback) ==
    /\ Drv /\ Idle /\ HasContext
    /\ DrvReturn("npu_run_async", npu_run_async(ctx, ctrl, callback))

Do_npu_wait(timeout_ms) ==
    /\ Drv /\ Idle /\ HasContext
    /\ writes' = <<>>
    /\ op' = Pending("npu_wait")
    /\ pc' = IdleLoop("npu_wait", timeout_ms)
    /\ UNCHANGED <<unit, client, npu, runtime, inst, exec, g_initialized, g_ctx, g_config, ctrl, ctx>>

Do_npu_irq_handler ==
    /\ Drv /\ Idle /\ HasContext
    /\ \E irq_status \in IrqStatusValues, p \in PerfCounterValues :
          /\ ctx' = npu_irq_handler(ctx, irq_status, p)
          /\ writes' = << WrBits("NPU_REG_IRQ_STATUS", irq_status) >>
                           \o irq_callback(ctx, irq_status)
    /\ op' = Returned("npu_irq_handler", "void")
    /\ UNCHANGED <<unit, client, npu, runtime, inst, exec, g_initialized, g_ctx, g_config, ctrl, pc>>

Do_npu_get_perf_stats(stats) ==
    /\ Drv /\ Idle /\ HasContext
    /\ IF stats = NullPtr
       THEN DrvReturn("npu_get_perf_stats",
                      Out("NPU_ERROR_INVALID_PARAM", ctx, ctrl, <<>>))
       ELSE \E p \in PerfCounterValues :
               DrvReturn("npu_get_perf_stats", npu_get_perf_stats(ctx, ctrl, p))

Do_npu_reset_perf_counters ==
    /\ Drv /\ Idle /\ HasContext /\ client = "perf"
    /\ DrvReturn("npu_reset_perf_counters", npu_reset_perf_counters(ctx, ctrl))

\* the return of npu_run / npu_wait once wait_for_idle returned status
DrvFinish(status, c) ==
    /\ pc' = NoCall
    /\ ctx' = c
    /\ op' = Returned(pc.call, status)
    /\ UNCHANGED <<unit, client, npu, runtime, inst, exec, g_initialized, g_ctx, g_config, ctrl, writes>>

\* npu_driver.c:80-102, wait_for_idle from the test of its loop condition
wait_for_idle ==
    /\ Drv /\ pc.loop = "wait_for_idle"
    /\ IF ~wait_for_idle_cond(pc.elapsed, pc.timeout, pc.timeout_ms)
       THEN DrvFinish("NPU_ERROR_TIMEOUT", ctx)
       ELSE \E r \in {wait_for_idle_body(status) : status \in StatusValues} :
               IF r = "continue" THEN PollOn
               ELSE DrvFinish(r, wait_for_idle_state(r, ctx))

\* the calls of the driver's clients
DrvNext ==
    \/ \E config \in DrvConfigs : Do_npu_init(config)
    \/ Do_npu_reset
    \/ Do_npu_abort
    \/ \E a \in Of("control", DrvInstArgs) : Do_npu_load_instructions(a[1], a[2])
    \/ \E a \in Of("control", DrvWeightArgs) : Do_npu_load_weights(a[1], a[2])
    \/ \E a \in Of("control", DrvInputArgs) : Do_npu_load_input(a[1], a[2])
    \/ \E timeout_ms \in (IF client = "control" THEN DrvTimeouts
                          ELSE {U32(0), U32(1)}) : Do_npu_run(timeout_ms)
    \/ \E callback \in DrvCallbacks : Do_npu_run_async(callback)
    \/ \E timeout_ms \in (IF client = "control" THEN DrvTimeouts
                          ELSE {U32(0), U32(1)}) : Do_npu_wait(timeout_ms)
    \/ Do_npu_irq_handler
    \/ \E stats \in Of("perf", {NullPtr, HostBuf}) : Do_npu_get_perf_stats(stats)
    \/ Do_npu_reset_perf_counters
    \/ wait_for_idle

(***************************************************************************)
(* Instruction words (firmware/include/npu_fw_inst.h)                      *)
(* A uint64_t is <<w3, w2, w1, w0>>: four 16-bit words, the most           *)
(* significant first.                                                      *)
(***************************************************************************)
U64(w3, w2, w1, w0) == <<w3, w2, w1, w0>>

RECURSIVE Or16(_, _)
\* a | b on 16-bit words
Or16(a, b) ==
    IF a = 0 THEN b
    ELSE IF b = 0 THEN a
    ELSE 2 * Or16(a \div 2, b \div 2) + (IF a % 2 = 1 \/ b % 2 = 1 THEN 1 ELSE 0)

\* x | y on uint64_t
Or64(x, y) == [i \in 1..4 |-> Or16(x[i], y[i])]

\* x << 56 and x << 48 on uint64_t: the bits shifted out are lost
Shl56(x) == U64((x[4] % 256) * 256, 0, 0, 0)

Shl48(x) == U64(x[4], 0, 0, 0)

\* an operand field that is not masked
mask48_none(x) == x

\* npu_fw_inst.h:170, x & 0xFFFFFFFFFFFFULL
mask48(x) == U64(0, x[2], x[3], x[4])

\* npu_fw_inst.h:169-170, on the opcode, flags and operands converted to uint64_t
MAKE_INST(opc, fl, ops) == Or64(Or64(Shl56(opc), Shl48(fl)), mask48(ops))

\* npu_fw_inst.h:119-126 and :221-231: the bit-fields of npu_inst_t, which
\* the compilers of the firmware's little-endian targets allocate from the
\* least significant bit: operands in bits 47..0, flags in bits 55..48,
\* opcode in bits 63..56
inst_get_opcode(raw) == raw[1] \div 256

inst_get_flags(raw) == raw[1] % 256

inst_get_operands(raw) == U64(0, raw[2], raw[3], raw[4])

\* no instruction built
NoInst == [opcode |-> 0, flags |-> 0, operands |-> U64(0, 0, 0, 0),
           raw |-> U64(0, 0, 0, 0), built |-> FALSE]

\* opcodes and flags (8 bits) and operands (64 bits) handed to MAKE_INST;
\* the operands include values with bits above bit 47
InstOpcodes == {0, 1, 16, 127, 128, 255}

InstFlags == {0, 1, 16, 128, 255}

InstOperands ==
    { U64(0, 0, 0, 0), U64(0, 0, 0, 1), U64(0, 32768, 0, 0),
      U64(0, W16 - 1, W16 - 1, W16 - 1), U64(1, 0, 0, 5),
      U64(256, 0, 0, 5), U64(W16 - 1, W16 - 1, W16 - 1, W16 - 1) }

\* the firmware builds an instruction
Do_MAKE_INST(opc, fl, ops) ==
    /\ unit = "inst"
    /\ inst' = [opcode |-> opc, flags |-> fl, operands |-> ops,
                raw |-> MAKE_INST(U64(0, 0, 0, opc), U64(0, 0, 0, fl), ops),
                built |-> TRUE]
    /\ UNCHANGED <<unit, client, npu, runtime, exec, g_initialized, g_ctx, g_config, ctrl,
                   ctx, pc, op, writes>>

InstNext ==
    \E opc \in InstOpcodes, fl \in InstFlags, ops \in InstOperands :
        Do_MAKE_INST(opc, fl, ops)

(***************************************************************************)
(* Instruction builders (npu_fw_inst.h) and the sequences the exec         *)
(* functions build (npu_layer_exec.c)                                      *)
(***************************************************************************)
\* npu_fw_inst.h:28-83, opcodes
OP_HALT           == 1
OP_WAIT_DMA       == 3
OP_DMA_LOAD_W     == 16
OP_DMA_LOAD_A     == 17
OP_DMA_STORE      == 18
OP_CLEAR_ACC      == 38
OP_LOAD_WEIGHT    == 39
OP_COMPUTE        == 40
OP_DRAIN          == 41
OP_MAXPOOL        == 80
OP_AVGPOOL        == 81
OP_GLOBAL_AVGPOOL == 82
OP_ADD            == 96

\* npu_fw_inst.h:105-109, flags
FLAG_LAST == 1
FLAG_RELU == 16

\* a * b for a, b < 2^16, as a uint32_t
Mul16(a, b) ==
    LET x == (a \div 256) * b
    IN  Add32(<<x \div 256, (x % 256) * 256>>, U32((a % 256) * b))

\* a * b modulo 2^32
Mul32(a, b) ==
    Add32(Mul16(a[2], b[2]),
          <<(Mul16(a[1], b[2])[2] + Mul16(a[2], b[1])[2]) % W16, 0>>)

\* (uint64_t)(x) for a uint32_t x
U64of32(x) == U64(0, 0, x[1], x[2])

\* x << 8 and x << 16 on uint64_t
Shl8(x) ==
    U64((x[1] % 256) * 256 + x[2] \div 256, (x[2] % 256) * 256 + x[3] \div 256,
        (x[3] % 256) * 256 + x[4] \div 256, (x[4] % 256) * 256)

Shl16(x) == U64(x[2], x[3], x[4], 0)

\* x << 24 and x << 40 on uint64_t
Shl24(x) == Shl8(Shl16(x))

Shl40(x) == Shl8(Shl16(Shl16(x)))

\* an instruction of opcode opc, flags fl and operands ops
Inst(opc, fl, ops) == MAKE_INST(U64(0, 0, 0, opc), U64(0, 0, 0, fl), ops)

\* a length that is not shifted into the operand
dma_len_field_none(len) == U64(0, 0, 0, 0)

\* npu_fw_inst.h:185, ((uint64_t)(len) << 40)
dma_len_field(len) == Shl40(U64of32(len))

\* npu_fw_inst.h:184-191, the operand of INST_DMA_LOAD_W, INST_DMA_LOAD_A
\* and INST_DMA_STORE for uint32_t src, dst and len
dma_operand(src, dst, len) ==
    Or64(Or64(U64of32(src), Shl24(U64of32(dst))), dma_len_field(len))

INST_DMA_LOAD_W(src, dst, len) == Inst(OP_DMA_LOAD_W, 0, dma_operand(src, dst, len))

INST_DMA_LOAD_A(src, dst, len) == Inst(OP_DMA_LOAD_A, 0, dma_operand(src, dst, len))

INST_DMA_STORE(src, dst, len) == Inst(OP_DMA_STORE, 0, dma_operand(src, dst, len))

\* npu_fw_inst.h:175-203
INST_HALT_unflagged == Inst(OP_HALT, 0, U64(0, 0, 0, 0))

INST_HALT == Inst(OP_HALT, FLAG_LAST, U64(0, 0, 0, 0))

INST_WAIT_DMA == Inst(OP_WAIT_DMA, 0, U64(0, 0, 0, 0))

INST_CLEAR_ACC == Inst(OP_CLEAR_ACC, 0, U64(0, 0, 0, 0))

INST_LOAD_WEIGHT(addr, count) ==
    Inst(OP_LOAD_WEIGHT, 0, Or64(U64of32(addr), Shl24(U64of32(count))))

INST_COMPUTE(flags) == Inst(OP_COMPUTE, flags, U64(0, 0, 0, 0))

INST_DRAIN(addr) == Inst(OP_DRAIN, 0, U64of32(addr))

\* a compute instruction that never carries the activation
get_activation_flags_never(act) == 0

\* npu_layer_exec.c:35-44
get_activation_flags(act) ==
    IF act \in {"ACT_RELU", "ACT_RELU6"} THEN FLAG_RELU ELSE 0

RECURSIVE Flat(_)
\* the concatenation of a sequence of sequences
Flat(seqs) == IF seqs = <<>> THEN <<>> ELSE Head(seqs) \o Flat(Tail(seqs))

\* npu_layer_exec.c:97-98
oc_tiles_floor(layer) == layer.output.c \div NPU_PE_COLS

oc_tiles(layer) == (layer.output.c + NPU_PE_COLS - 1) \div NPU_PE_COLS

ic_tiles(layer) == (layer.input.c + NPU_PE_ROWS - 1) \div NPU_PE_ROWS

\* npu_layer_exec.c:101-103, the first channel of output-channel tile oc_t
\* and the number of its channels
oc_start(oc_t) == oc_t * NPU_PE_COLS

oc_count(layer, oc_t) ==
    (IF oc_start(oc_t) + NPU_PE_COLS > layer.output.c
     THEN layer.output.c ELSE oc_start(oc_t) + NPU_PE_COLS) - oc_start(oc_t)

\* npu_layer_exec.c:106-107, on uint32_t
weight_offset(layer, oc_t) ==
    Mul32(Mul32(Mul32(U32(oc_start(oc_t)), U32(layer.input.c)),
                U32(layer.kernel_h)), U32(layer.kernel_w))

weight_size(layer, oc_t) ==
    Mul32(Mul32(Mul32(U32(oc_count(layer, oc_t)), U32(layer.input.c)),
                U32(layer.kernel_h)), U32(layer.kernel_w))

\* npu_layer_exec.c:127
out_offset_none(layer, oc_t) == Zero32

out_offset(layer, oc_t) ==
    Mul32(Mul32(U32(oc_start(oc_t)), U32(layer.output.h)), U32(layer.output.w))

\* npu_layer_exec.c:117-124, the instructions of input-channel tile ic_t
ic_tile(layer, oc_t, ic_t) ==
    << INST_LOAD_WEIGHT(Zero32, U32(oc_count(layer, oc_t))),
       INST_COMPUTE(IF ic_t = ic_tiles(layer) - 1
                    THEN get_activation_flags(layer.activation) ELSE 0) >>

\* npu_layer_exec.c:116-124, the instructions of the loop over the
\* input-channel tiles: entry j is of tile (j - 1) \div 2
ic_loop(layer, oc_t) ==
    [j \in 1..(2 * ic_tiles(layer)) |->
        ic_tile(layer, oc_t, (j - 1) \div 2)[((j - 1) % 2) + 1]]

\* npu_layer_exec.c:100-134, the instructions of output-channel tile oc_t
oc_tile(layer, oc_t) ==
    << INST_DMA_LOAD_W(Add32(layer.weight.addr, weight_offset(layer, oc_t)),
                       Zero32, weight_size(layer, oc_t)),
       INST_WAIT_DMA >>
    \o ic_loop(layer, oc_t)
    \o << INST_DRAIN(Add32(layer.output.addr, out_offset(layer, oc_t))) >>
    \o (IF oc_t < oc_tiles(layer) - 1 THEN << INST_CLEAR_ACC >> ELSE <<>>)

\* npu_layer_exec.c:90-137, the instructions npu_rt_exec_conv stores through
\* inst_buf[inst_idx++], in the order of the stores
conv_sequence(layer) ==
    << INST_CLEAR_ACC >>
    \o Flat([t \in 1..oc_tiles(layer) |-> oc_tile(layer, t - 1)])
    \o << INST_HALT >>

\* npu_fw_types.h:238-239, on uint32_t
TENSOR_SIZE(t) == Mul32(Mul32(Mul32(U32(t.n), U32(t.c)), U32(t.h)), U32(t.w))

TENSOR_BYTES(t) == MulSmall32(TENSOR_SIZE(t), IF t.dtype = 0 THEN 1 ELSE 2)

\* npu_layer_exec.c:194-197
pool_op(layer) ==
    IF layer.type = "LAYER_GLOBAL_AVGPOOL" THEN OP_GLOBAL_AVGPOOL
    ELSE IF layer.type = "LAYER_MAXPOOL" THEN OP_MAXPOOL ELSE OP_AVGPOOL

\* npu_layer_exec.c:185-212, the instructions npu_rt_exec_pool stores
pool_sequence(layer) ==
    << INST_DMA_LOAD_A(layer.input.addr, Zero32, TENSOR_BYTES(layer.input)),
       INST_WAIT_DMA,
       Inst(pool_op(layer), 0,
            U64(0, 0, layer.pool_stride_h + 256 * layer.pool_stride_w,
                layer.pool_h + 256 * layer.pool_w)),
       INST_DMA_STORE(Zero32, layer.output.addr, TENSOR_BYTES(layer.output)),
       INST_WAIT_DMA,
       INST_HALT >>

\* npu_layer_exec.c:231-253, the instructions npu_rt_exec_eltwise stores
eltwise_sequence(layer, input2) ==
    << INST_DMA_LOAD_A(layer.input.addr, Zero32, TENSOR_BYTES(layer.input)),
       INST_WAIT_DMA,
       INST_DMA_LOAD_A(input2.addr, TENSOR_BYTES(layer.input),
                       TENSOR_BYTES(layer.input)),
       INST_WAIT_DMA,
       Inst(OP_ADD, get_activation_flags(layer.activation), U64(0, 0, 0, 0)),
       INST_DMA_STORE(Zero32, layer.output.addr, TENSOR_BYTES(layer.output)),
       INST_WAIT_DMA,
       INST_HALT >>

\* the second input of npu_rt_exec_eltwise
Input2(layer) == layer.input2

\* npu_layer_exec.c:50-67, the function npu_rt_exec_layer hands the layer to
lowering(type) ==
    IF type \in {"LAYER_CONV2D", "LAYER_DWCONV2D"} THEN "npu_rt_exec_conv"
    ELSE IF type = "LAYER_FC" THEN "npu_rt_exec_fc"
    ELSE IF type \in {"LAYER_MAXPOOL", "LAYER_AVGPOOL", "LAYER_GLOBAL_AVGPOOL"}
    THEN "npu_rt_exec_pool"
    ELSE "none"

\* the function of npu_layer_exec.c that builds the sequence of a call
builder(fn, layer) == IF fn = "npu_rt_exec_layer" THEN lowering(layer.type) ELSE fn

\* npu_layer_exec.c:91, :185, :231: the entries of the local array inst_buf
inst_buf_entries(fn) ==
    IF fn \in {"npu_rt_exec_conv", "npu_rt_exec_fc"} THEN 256 ELSE 32

\* the instructions a call of fn stores through inst_buf[inst_idx++]
sequence_of(fn, layer) ==
    CASE builder(fn, layer) = "npu_rt_exec_conv"    -> conv_sequence(layer)
      [] builder(fn, layer) = "npu_rt_exec_fc"      -> conv_sequence(fc_as_conv(layer))
      [] builder(fn, layer) = "npu_rt_exec_pool"    -> pool_sequence(layer)
      [] builder(fn, layer) = "npu_rt_exec_eltwise" -> eltwise_sequence(layer, Input2(layer))
      [] OTHER -> <<>>

\* no exec function was called
NoExec == [fn |-> "none"]

\* the stores of the call run past the end of inst_buf
Overruns(fn, layer) ==
    Len(sequence_of(fn, layer)) > inst_buf_entries(builder(fn, layer))

\* what follows a store past the end of the local array is undefined: the
\* call may go on with the instructions it stored in the memory after the
\* array, or the damaged stack frame may end it
AfterStores(fn, layer) ==
    IF Overruns(fn, layer) THEN {"goes on", "undefined"} ELSE {"goes on"}

\* the layers handed to the exec functions: kinds, channel counts around the
\* tile size of 16 and up to 256, activations, kernels of 1 and 3
CompChannels == {1, 16, 17, 32, 40, 96, 256}

CompActivations == {"ACT_NONE", "ACT_RELU", "ACT_SIGMOID"}

WeightAddr == U32(256)

OutputAddr == U32(2048)

Input2Addr == U32(512)

ConvLayer2(type, act, ic, oc, k) ==
    [Layer(type, act, Tensor(ic, 8, 8), TensorAt(OutputAddr, Tensor(oc, 8, 8)),
           k, k \div 2)
        EXCEPT !.weight = TensorAt(WeightAddr, [Tensor(ic, k, k) EXCEPT !.n = oc])]

ConvLayers ==
    { ConvLayer2("LAYER_CONV2D", act, ic, oc, k) :
        act \in CompActivations, ic \in CompChannels, oc \in CompChannels,
        k \in {1, 3} }

DwConvLayers ==
    { ConvLayer2("LAYER_DWCONV2D", act, c, c, 3) :
        act \in {"ACT_NONE", "ACT_RELU6"}, c \in {16, 40} }

FcLayers ==
    { [Layer("LAYER_FC", "ACT_NONE", Tensor(ic, hw, hw), TensorAt(OutputAddr, Tensor(oc, 1, 1)), 1, 0)
          EXCEPT !.weight = TensorAt(WeightAddr, [Tensor(ic, hw, hw) EXCEPT !.n = oc])] :
        ic \in {4, 64, 1024}, oc \in {10, 40}, hw \in {2, 8} }

PoolLayers ==
    { Layer(type, "ACT_NONE", Tensor(c, 8, 8), TensorAt(OutputAddr, Tensor(c, 4, 4)), 2, 0) :
        type \in {"LAYER_MAXPOOL", "LAYER_AVGPOOL", "LAYER_GLOBAL_AVGPOOL"},
        c \in {2, 16} }

OtherLayers ==
    { Layer(type, act, Tensor(16, 4, 4), TensorAt(OutputAddr, Tensor(16, 4, 4)), 1, 0) :
        type \in {"LAYER_ADD", "LAYER_CONCAT", "LAYER_SOFTMAX"},
        act \in {"ACT_NONE", "ACT_RELU"} }

\* the layers handed to npu_rt_exec_eltwise, each with the second input of
\* the call: a tensor of the first input's shape or one of another size
EltwiseLayers ==
    { [type |-> "LAYER_ADD", activation |-> act,
       input |-> Tensor(c, 4, 4), output |-> TensorAt(OutputAddr, Tensor(c, 4, 4)),
       kernel_h |-> 1, kernel_w |-> 1, stride_h |-> 1, stride_w |-> 1,
       pad_top |-> 0, pad_bottom |-> 0, pad_left |-> 0, pad_right |-> 0,
       weight |-> [Tensor(c, 1, 1) EXCEPT !.n = c],
       pool_h |-> 1, pool_w |-> 1, pool_stride_h |-> 1, pool_stride_w |-> 1,
       output_scale |-> 1, output_zero_point |-> 0,
       input2 |-> TensorAt(Input2Addr, Tensor(c2, hw2, hw2))] :
        act \in {"ACT_NONE", "ACT_RELU"}, c \in {2, 16},
        c2 \in {2, 16}, hw2 \in {1, 4} }

\* the calls <<function, layer>>
CompCalls ==
    ({"npu_rt_exec_layer"} \X (DwConvLayers \cup FcLayers \cup PoolLayers \cup OtherLayers))
    \cup ({"npu_rt_exec_layer"} \X {l \in ConvLayers : l.input.c = 32 /\ l.kernel_h = 3})
    \cup ({"npu_rt_exec_conv"} \X (ConvLayers \cup DwConvLayers))
    \cup ({"npu_rt_exec_fc"} \X FcLayers)
    \cup ({"npu_rt_exec_pool"} \X PoolLayers)
    \cup ({"npu_rt_exec_eltwise"} \X EltwiseLayers)

\* the configuration the runtime was initialised with: 1024 instruction entries
CompConfig ==
    [inst_buf_addr |-> NPU_INST_BUF_BASE, inst_buf_size |-> U32(8192),
     weight_buf_addr |-> NPU_WEIGHT_BUF_BASE, weight_buf_size |-> U32(2048),
     act_buf_addr |-> NPU_ACT_BUF_BASE, act_buf_size |-> U32(4096),
     enable_irq |-> TRUE, enable_perf |-> FALSE]

\* the first call of an exec function after npu_rt_init, up to the start of
\* execution
Do_exec_build(fn, layer) ==
    /\ unit = "comp"
    /\ exec = NoExec
    /\ \E after \in AfterStores(fn, layer) :
          LET o == Exec(fn, g_initialized, g_ctx, ctrl, layer)
          IN  exec' = [fn |-> fn, layer |-> layer,
                       inst_buf |-> sequence_of(fn, layer),
                       entries |-> inst_buf_entries(builder(fn, layer)),
                       after |-> after,
                       ret |-> IF after = "goes on" THEN o.ret ELSE "undefined",
                       wr |-> o.wr]
    /\ UNCHANGED <<unit, client, npu, runtime, inst, g_initialized, g_ctx, g_config,
                   ctrl, ctx, pc, op, writes>>

CompNext == \E call \in CompCalls : Do_exec_build(call[1], call[2])

(***************************************************************************)
(* Runtime library (runtime/src/npu_runtime.c): model slots                *)
(***************************************************************************)
\* npu_runtime.h:21-22; 0x55504E45, 0x0100
NPU_MODEL_MAGIC   == <<21840, 20037>>
NPU_MODEL_VERSION == 256

\* sizeof(npu_model_header_t), npu_runtime.h:24-34
sizeof_npu_model_header_t == 64

\* no model in a slot, and a model as npu_model_load_memory leaves it
NoModel == [loaded |-> FALSE, num_instructions |-> Zero32, weights_size |-> Zero32]

Model(header) ==
    [loaded |-> TRUE, num_instructions |-> header.num_instructions,
     weights_size |-> header.weights_size]

\* a npu_model_header_t (npu_runtime.h:24-34)
RtHeader(magic, version, num_instructions, weights_size, bias_size) ==
    [magic |-> magic, version |-> version, num_instructions |-> num_instructions,
     weights_size |-> weights_size, bias_size |-> bias_size]

\* a model of 8 instructions, 16 bytes of weights and no bias
GoodRtHeader == RtHeader(<<21840, 20037>>, 256, U32(8), U32(16), U32(0))

\* arguments <<data, size, header at data>> of npu_model_load_memory: a good
\* model, a NULL pointer, a size below the header's, a magic of 0x4E505545,
\* version 0x0101, a model with 4 bytes of bias, and a binary that ends with
\* its header
RtModelArgs ==
    { <<HostBuf, U32(4096), GoodRtHeader>>,
      <<NullPtr, U32(4096), GoodRtHeader>>,
      <<HostBuf, U32(16), GoodRtHeader>>,
      <<HostBuf, U32(4096), [GoodRtHeader EXCEPT !.magic = <<20048, 21829>>]>>,
      <<HostBuf, U32(4096), [GoodRtHeader EXCEPT !.version = 257]>>,
      <<HostBuf, U32(4096), [GoodRtHeader EXCEPT !.bias_size = U32(4)]>>,
      <<HostBuf, U32(sizeof_npu_model_header_t), GoodRtHeader>> }

\* configurations passed to npu_runtime_create
RtConfigs == {[max_models |-> 2]}

\* npu_runtime.c:66-102, with memory available
npu_runtime_create(config) ==
    [initialized |-> TRUE, max_models |-> config.max_models,
     models |-> [i \in 1..config.max_models |-> NoModel], num_models |-> 0]

\* npu_runtime.c:132-145: the first free slot, 0 when there is none
allocate_model_slot(rt) ==
    IF \E i \in 1..rt.max_models : ~rt.models[i].loaded
    THEN CHOOSE i \in 1..rt.max_models :
            /\ ~rt.models[i].loaded
            /\ \A j \in 1..(i - 1) : rt.models[j].loaded
    ELSE 0

\* npu_runtime.c:147-223 on a runtime that is not NULL, with memory
\* available.  Yields [ret, rt, wr].
npu_model_load_memory(rt, data, size, header) ==
    IF data = NullPtr \/ Lt32(size, U32(sizeof_npu_model_header_t))
    THEN [ret |-> "NULL", rt |-> rt, wr |-> <<>>]
    ELSE IF header.magic # NPU_MODEL_MAGIC
    THEN [ret |-> "NULL", rt |-> rt, wr |-> <<>>]
    ELSE IF allocate_model_slot(rt) = 0
    THEN [ret |-> "NULL", rt |-> rt, wr |-> <<>>]
    ELSE [ret |-> "model",
          rt  |-> [rt EXCEPT !.models[allocate_model_slot(rt)] = Model(header),
                             !.num_models = @ + 1],
          wr  |-> << Cp("model_instructions", Zero32,
                        MulSmall32(header.num_instructions, 8)) >>
                  \o (IF Gt32(header.weights_size, Zero32)
                      THEN << Cp("model_weights", Zero32, header.weights_size) >>
                      ELSE <<>>)
                  \o (IF Gt32(header.bias_size, Zero32)
                      THEN << Cp("model_bias", Zero32, header.bias_size) >>
                      ELSE <<>>)]

\* npu_runtime.c:268-288, for the model in slot i
npu_model_unload(rt, i) ==
    [rt EXCEPT !.models[i] = NoModel, !.num_models = @ - 1]

(***************************************************************************)
(* Runtime library: the calls                                              *)
(***************************************************************************)
Rt == unit = "rt"

RtReturn(name, ret, rt, wr) ==
    /\ runtime' = rt
    /\ writes' = wr
    /\ op' = Returned(name, ret)
    /\ UNCHANGED <<unit, client, npu, inst, exec, g_initialized, g_ctx, g_config, ctrl, ctx, pc>>

Do_npu_runtime_create(config) ==
    /\ Rt /\ ~runtime.initialized
    /\ RtReturn("npu_runtime_create", "runtime", npu_runtime_create(config), <<>>)

\* npu_runtime.c:104-118
Do_npu_runtime_destroy ==
    /\ Rt /\ runtime.initialized
    /\ RtReturn("npu_runtime_destroy", "void", NoRuntime, <<>>)

Do_npu_model_load_memory(data, size, header) ==
    /\ Rt /\ runtime.initialized
    /\ LET o == npu_model_load_memory(runtime, data, size, header)
       IN  RtReturn("npu_model_load_memory", o.ret, o.rt, o.wr)

Do_npu_model_unload(i) ==
    /\ Rt /\ runtime.initialized
    /\ i \in 1..runtime.max_models
    /\ runtime.models[i].loaded
    /\ RtReturn("npu_model_unload", "void", npu_model_unload(runtime, i), <<>>)

\* the calls of the runtime library's client
RtNext ==
    \/ \E config \in RtConfigs : Do_npu_runtime_create(config)
    \/ Do_npu_runtime_destroy
    \/ \E a \in RtModelArgs : Do_npu_model_load_memory(a[1], a[2], a[3])
    \/ \E i \in 1..2 : Do_npu_model_unload(i)

(***************************************************************************)
(* The Linux kernel driver (software/driver/linux/edge_npu.c)              *)
(*                                                                         *)
(* npu holds struct edge_npu_dev's completion, the device's IRQ-status     *)
(* register, and the position of each process inside edge_npu_ioctl.  The  *)
(* driver's CTRL_ENABLE, CTRL_START and STATUS_DONE (edge_npu.c:37-43) are *)
(* the bits of the same name defined above.                                *)
(***************************************************************************)
\* processes that have the device open
Tasks == {1, 2}

\* interrupts the hardware raises in one behaviour
MaxInterrupts == 3

\* what the hardware can set in the IRQ-status register at one time:
\* done (bit 0), error (bit 1), dma-done (bit 2)
IrqEvents == (SUBSET {0, 1, 2}) \ {{}}

NoNpu == [irq_status |-> {}, done |-> 0, task |-> [p \in Tasks |-> "user"],
          started |-> FALSE, raised |-> 0, completed |-> 0, released |-> 0,
          irq_ret |-> "none"]

Linux == unit = "linux"

\* edge_npu.c:125-127
Do_NPU_IOC_START(p) ==
    /\ Linux
    /\ npu.task[p] = "user"
    /\ npu' = [npu EXCEPT !.started = TRUE]
    /\ writes' = << WrBits("REG_CTRL", CTRL_ENABLE \cup CTRL_START) >>
    /\ op' = Returned("NPU_IOC_START", "0")
    /\ UNCHANGED <<unit, client, runtime, inst, exec, g_initialized, g_ctx, g_config, ctrl, ctx, pc>>

\* the device sets bits of its IRQ-status register and asserts its interrupt
\* line
raise_irq(bits) ==
    /\ Linux
    /\ npu.started
    /\ npu.raised < MaxInterrupts
    /\ npu' = [npu EXCEPT !.irq_status = @ \cup bits, !.raised = @ + 1]
    /\ UNCHANGED <<unit, client, runtime, inst, exec, g_initialized, g_ctx, g_config, ctrl, ctx, pc, op, writes>>

\* edge_npu.c:88-103; the handler runs while the interrupt line is asserted.
\* The write of the value read clears the bits that were set
\* (write-one-to-clear), complete() adds one to the completion's count.
edge_npu_irq ==
    /\ Linux
    /\ npu.irq_status # {}
    /\ LET status == npu.irq_status
       IN  IF status \cap STATUS_DONE # {}
           THEN /\ npu' = [npu EXCEPT !.irq_status = @ \ status,
                                      !.done = @ + 1,
                                      !.completed = @ + 1,
                                      !.irq_ret = "IRQ_HANDLED"]
                /\ writes' = << WrBits("REG_IRQ_STATUS", status) >>
           ELSE /\ npu' = [npu EXCEPT !.irq_ret = "IRQ_NONE"]
                /\ writes' = <<>>
    /\ UNCHANGED <<unit, client, runtime, inst, exec, g_initialized, g_ctx, g_config, ctrl, ctx, pc, op>>

\* edge_npu.c:129-130: NPU_IOC_WAIT enters wait_for_completion
Do_NPU_IOC_WAIT(p) ==
    /\ Linux
    /\ npu.task[p] = "user"
    /\ npu' = [npu EXCEPT !.task[p] = "wait_for_completion"]
    /\ UNCHANGED <<unit, client, runtime, inst, exec, g_initialized, g_ctx, g_config, ctrl, ctx, pc, op, writes>>

\* edge_npu.c:130: wait_for_completion returns to one waiter once the count
\* is positive, and takes one from it
wait_for_completion(p) ==
    /\ Linux
    /\ npu.task[p] = "wait_for_completion"
    /\ npu.done > 0
    /\ npu' = [npu EXCEPT !.done = @ - 1, !.task[p] = "reinit_completion"]
    /\ UNCHANGED <<unit, client, runtime, inst, exec, g_initialized, g_ctx, g_config, ctrl, ctx, pc, op, writes>>

\* edge_npu.c:131-132, 150: reinit_completion sets the count to 0 and the
\* ioctl returns 0
reinit_completion(p) ==
    /\ Linux
    /\ npu.task[p] = "reinit_completion"
    /\ npu' = [npu EXCEPT !.done = 0, !.task[p] = "user", !.released = @ + 1]
    /\ op' = Returned("NPU_IOC_WAIT", "0")
    /\ writes' = <<>>
    /\ UNCHANGED <<unit, client, runtime, inst, exec, g_initialized, g_ctx, g_config, ctrl, ctx, pc>>

\* edge_npu.c:134-147: NPU_IOC_STATUS and NPU_IOC_VERSION copy a register to
\* the caller, which fails when the caller's pointer is bad; any other
\* command is refused
Do_ioctl_other(p, cmd, copied) ==
    /\ Linux
    /\ npu.task[p] = "user"
    /\ op' = Returned(cmd, IF cmd \notin {"NPU_IOC_STATUS", "NPU_IOC_VERSION"}
                           THEN "-EINVAL"
                           ELSE IF copied THEN "0" ELSE "-EFAULT")
    /\ writes' = <<>>
    /\ UNCHANGED <<unit, client, npu, runtime, inst, exec, g_initialized, g_ctx, g_config, ctrl, ctx, pc>>

LinuxNext ==
    \/ \E p \in Tasks : Do_NPU_IOC_START(p)
    \/ \E bits \in IrqEvents : raise_irq(bits)
    \/ edge_npu_irq
    \/ \E p \in Tasks : Do_NPU_IOC_WAIT(p)
    \/ \E p \in Tasks : wait_for_completion(p)
    \/ \E p \in Tasks : reinit_completion(p)
    \/ \E p \in Tasks, cmd \in {"NPU_IOC_STATUS", "NPU_IOC_VERSION", "other"},
          copied \in BOOLEAN :
           Do_ioctl_other(p, cmd, copied)

\* the driver after edge_npu_probe (edge_npu.c:161-218): init_completion has
\* set the count to 0
LinuxInit ==
    /\ unit = "linux"
    /\ npu = NoNpu
    /\ client = "control"
    /\ runtime = NoRuntime
    /\ inst = NoInst
    /\ exec = NoExec
    /\ g_initialized = FALSE
    /\ g_ctx = ZeroCtx
    /\ g_config = ZeroConfig
    /\ ctrl = {}
    /\ ctx = NoContext
    /\ pc = NoCall
    /\ op = Returned("none", "0")
    /\ writes = <<>>

LinuxSpec == LinuxInit /\ [][LinuxNext]_vars

\* the kernel runs the handler while the interrupt line is asserted, and the
\* scheduler runs a task that has been woken
LinuxLiveSpec ==
    /\ LinuxInit
    /\ [][LinuxNext]_vars
    /\ WF_vars(edge_npu_irq)
    /\ \A p \in Tasks : WF_vars(wait_for_completion(p))
    /\ \A p \in Tasks : WF_vars(reinit_completion(p))

(***************************************************************************)
(* Specification                                                           *)
(***************************************************************************)
\* the firmware after boot (npu_boot.c:190 leaves CTRL = enable), before
\* npu_rt_init
FwInit ==
    /\ unit = "fw"
    /\ npu = NoNpu
    /\ inst = NoInst
    /\ exec = NoExec
    /\ client \in Clients
    /\ runtime = NoRuntime
    /\ g_initialized = FALSE
    /\ g_ctx = ZeroCtx
    /\ g_config = ZeroConfig
    /\ ctrl = CTRL_ENABLE
    /\ ctx = NoContext
    /\ pc = NoCall
    /\ op = Returned("boot", "FW_OK")
    /\ writes = <<>>

\* the host before npu_init
DrvInit ==
    /\ unit = "drv"
    /\ npu = NoNpu
    /\ inst = NoInst
    /\ exec = NoExec
    /\ client \in {"control", "perf"}
    /\ runtime = NoRuntime
    /\ g_initialized = FALSE
    /\ g_ctx = ZeroCtx
    /\ g_config = ZeroConfig
    /\ ctrl = {}
    /\ ctx = NoContext
    /\ pc = NoCall
    /\ op = Returned("none", "NPU_OK")
    /\ writes = <<>>

\* the host before npu_runtime_create
RtInit ==
    /\ unit = "rt"
    /\ npu = NoNpu
    /\ inst = NoInst
    /\ exec = NoExec
    /\ client = "model"
    /\ runtime = NoRuntime
    /\ g_initialized = FALSE
    /\ g_ctx = ZeroCtx
    /\ g_config = ZeroConfig
    /\ ctrl = {}
    /\ ctx = NoContext
    /\ pc = NoCall
    /\ op = Returned("none", "NPU_OK")
    /\ writes = <<>>

Init == FwInit \/ DrvInit \/ RtInit

Next == FwNext \/ DrvNext \/ RtNext

Spec == Init /\ [][Next]_vars

\* the exec functions' instruction sequences on their own: the runtime is
\* initialised and Idle
CompInit ==
    /\ unit = "comp"
    /\ npu = NoNpu
    /\ client = "control"
    /\ runtime = NoRuntime
    /\ inst = NoInst
    /\ exec = NoExec
    /\ g_initialized = TRUE
    /\ g_ctx = npu_rt_init(CompConfig).ctx
    /\ g_config = CompConfig
    /\ ctrl = CTRL_ENABLE
    /\ ctx = NoContext
    /\ pc = NoCall
    /\ op = Returned("npu_rt_init", "FW_OK")
    /\ writes = npu_rt_init(CompConfig).wr

CompSpec == CompInit /\ [][CompNext]_vars

\* the instruction builder on its own
\* ---------------------------------------------------------------------
\* Tensor sizes (npu_fw_types.h:238-239)
\* ---------------------------------------------------------------------

\* the dimensions (uint16_t) and the element type codes (uint8_t dtype:
\* 0 int8, 1 int16, 2 fp16, and a further code for fp32) of the descriptors
\* handed to TENSOR_BYTES
TensorDims == {1, 16, 256, W16 - 1}

TensorDtypes == {0, 1, 2, 3}

TensorDescs ==
    { [addr |-> Zero32, n |-> n, c |-> c, h |-> h, w |-> w, dtype |-> d] :
        n \in {1, 256}, c \in TensorDims, h \in TensorDims, w \in TensorDims,
        d \in TensorDtypes }

\* the firmware computes the byte size of a tensor descriptor
Do_TENSOR_BYTES(t) ==
    /\ unit = "tensor"
    /\ exec' = [fn |-> "TENSOR_BYTES", t |-> t,
                size |-> TENSOR_SIZE(t), bytes |-> TENSOR_BYTES(t)]
    /\ UNCHANGED <<unit, client, npu, runtime, inst, g_initialized, g_ctx, g_config, ctrl,
                   ctx, pc, op, writes>>

TensorNext == \E t \in TensorDescs : Do_TENSOR_BYTES(t)

TensorInit ==
    /\ unit = "tensor"
    /\ npu = NoNpu
    /\ client = "control"
    /\ runtime = NoRuntime
    /\ inst = NoInst
    /\ exec = NoExec
    /\ g_initialized = FALSE
    /\ g_ctx = ZeroCtx
    /\ g_config = ZeroConfig
    /\ ctrl = {}
    /\ ctx = NoContext
    /\ pc = NoCall
    /\ op = Returned("none", "FW_OK")
    /\ writes = <<>>

TensorSpec == TensorInit /\ [][TensorNext]_vars

InstInit ==
    /\ unit = "inst"
    /\ npu = NoNpu
    /\ client = "control"
    /\ runtime = NoRuntime
    /\ inst = NoInst
    /\ exec = NoExec
    /\ g_initialized = FALSE
    /\ g_ctx = ZeroCtx
    /\ g_config = ZeroConfig
    /\ ctrl = {}
    /\ ctx = NoContext
    /\ pc = NoCall
    /\ op = Returned("none", "FW_OK")
    /\ writes = <<>>

InstSpec == InstInit /\ [][InstNext]_vars

\* a poll loop returns: the status read shows completion or an error, or the
\* deadline has passed
Completes == (wait_status \/ dma_wait \/ wait_for_idle) /\ pc'.call = "none"

\* the hardware eventually sets done or error: a wait that could return on
\* its next status read does not poll on for ever
LiveSpec == Init /\ [][Next]_vars /\ WF_vars(Completes)

(***************************************************************************)
(* Properties                                                              *)
(***************************************************************************)
\* the execution is in progress according to the software state
Running ==
    \/ Fw /\ g_initialized /\ g_ctx.state = "NPU_STATE_RUNNING"
    \/ Drv /\ ctx.state = "NPU_STATE_RUNNING"

InError ==
    \/ Fw /\ g_initialized /\ g_ctx.state = "NPU_STATE_ERROR"
    \/ Drv /\ ctx.state = "NPU_STATE_ERROR"

BusyCodes == {"FW_ERROR_BUSY", "NPU_ERROR_BUSY"}

TimeoutCodes == {"FW_ERROR_TIMEOUT", "NPU_ERROR_TIMEOUT"}

\* this step is a call of one of the operations in names
Calls(names) == Idle /\ op'.name \in names

\* C1: npu_rt_start, npu_run and npu_run_async called while the state is
\* Running return Busy and change nothing: no register (instruction pointer,
\* IRQ status, control) is written, the context (inst_ptr, state) and the
\* content of the control register are as before, and no wait is entered.
C1_StartWhileRunningIsBusy ==
    [][ (Running /\ Calls({"npu_rt_start", "npu_run", "npu_run_async"}))
            => /\ op'.ret \in BusyCodes
               /\ writes' = <<>>
               /\ UNCHANGED <<g_ctx, ctx, ctrl, pc>> ]_vars

C1_Witness ==
    /\ op = Returned("npu_rt_start", "FW_ERROR_BUSY")
    /\ g_ctx.state = "NPU_STATE_RUNNING"
    /\ writes = <<>>

\* C2: once the state is Error it stays Error until npu_rt_stop, npu_rt_init
\* or npu_rt_deinit (firmware), npu_reset or npu_abort (driver): no other
\* call moves the state out of Error.
C2_ErrorUntilReset ==
    [][ (InError /\ ~InError')
            => op'.name \in {"npu_rt_stop", "npu_rt_init", "npu_rt_deinit",
                             "npu_reset", "npu_abort"} ]_vars

\* C3: a load called while the state is Running returns Busy (or rejects a
\* null pointer or zero size as an invalid parameter) and writes neither a
\* buffer nor a register.
C3_LoadWhileRunningIsBusy ==
    [][ (Running /\ Calls({"npu_rt_load_instructions", "npu_rt_load_weights",
                           "npu_rt_load_input", "npu_load_instructions",
                           "npu_load_weights", "npu_load_input"}))
            => /\ op'.ret \in BusyCodes \cup {"FW_ERROR_INVALID_PARAM",
                                              "NPU_ERROR_INVALID_PARAM"}
               /\ writes' = <<>> ]_vars

\* the configured instruction-buffer size
ConfiguredInstBufSize ==
    IF Fw THEN g_config.inst_buf_size ELSE ctx.config.inst_buf_size

\* the copies into buffer mem logged in writes
Copies(mem) == {i \in 1..Len(writes) : writes[i].t = mem}

\* C4: no instruction load copies more instructions than the configured
\* inst_buf_size: a count above it is refused with nothing written.  (The
\* size is taken here as a number of entries, the reading most favourable
\* to the code; in bytes the capacity is eight times smaller.)
C4_InstructionCountWithinConfiguredBuffer ==
    \A i \in Copies("inst_buf") : ~Gt32(writes[i].v, ConfiguredInstBufSize)

\* the true extent offset + len fits in size: no carry out of 32 bits and
\* the sum is at most size
Fits(offset, len, size) ==
    Carry32(offset, len) = 0 /\ ~Gt32(Add32(offset, len), size)

\* C5: a load whose true extent (offset + size, or count x 8 bytes in the
\* driver) exceeds the configured weight, activation or instruction buffer
\* size writes nothing: every copy logged lies within the configured size,
\* also when offset + size or count x 8 wraps around in 32 bits.
C5_NoWriteBeyondConfiguredSize ==
    /\ \A i \in Copies("weight_buf") :
          Fits(writes[i].off, writes[i].v,
               IF Fw THEN g_config.weight_buf_size
               ELSE ctx.config.weight_buf_size)
    /\ \A i \in Copies("act_buf") :
          Fits(writes[i].off, writes[i].v, ctx.config.act_buf_size)
    /\ Drv => \A i \in Copies("inst_buf") :
                 /\ MulSmallOverflow32(writes[i].v, 8) = 0
                 /\ ~Gt32(MulSmall32(writes[i].v, 8), ctx.config.inst_buf_size)

\* the loop condition of the poll loop p
LoopCond(p) ==
    IF p.loop = "wait_for_idle"
    THEN wait_for_idle_cond(p.elapsed, p.timeout, p.timeout_ms)
    ELSE wait_loop_cond(p.elapsed, p.timeout)

\* what the body of poll loop p does on reading status
PollResult(p, status) ==
    IF p.loop = "wait_for_idle" THEN wait_for_idle_body(status)
    ELSE IF p.loop = "dma_wait" THEN dma_wait_body(status)
    ELSE wait_status_body(status, p.mask, p.expected)

\* C6: npu_rt_wait with a nonzero timeout_us and a status that never shows
\* done or error returns Timeout after exactly ceil(timeout_us / 10) polls:
\* it returns Timeout only after that many polls, and after that many polls
\* it does not poll on.
C6_TimeoutAfterCeilPolls ==
    [][ (pc.call = "npu_rt_wait" /\ NonZero32(pc.timeout))
            => /\ op'.ret \in TimeoutCodes => pc.polls = CeilDiv10(pc.timeout)
               /\ pc'.call = "npu_rt_wait" => pc.polls < CeilDiv10(pc.timeout) ]_vars

\* the status shows idle or done and no error
IdleOrDone(status) ==
    IF Fw
    THEN status \cap (STATUS_IDLE \cup STATUS_DONE) # {} /\ status \cap STATUS_ERROR = {}
    ELSE status \cap (NPU_STATUS_IDLE \cup NPU_STATUS_DONE) # {}
            /\ status \cap NPU_STATUS_ERROR = {}

\* C7: npu_rt_wait and npu_wait, for any timeout, poll the status at least
\* once, and succeed on that first poll when the status shows idle or done
\* and no error.
C7_WaitSucceedsOnFirstPoll ==
    (pc.call \in {"npu_rt_wait", "npu_wait"} /\ pc.polls = 0)
        => /\ LoopCond(pc)
           /\ \A status \in StatusValues :
                 IdleOrDone(status) => PollResult(pc, status) \in {"FW_OK", "NPU_OK"}

\* a wait with timeout 0 is in progress
Blocking == pc.call # "none" /\ pc.timeout = Zero32 /\ pc.timeout_ms = Zero32

\* C8: a wait with timeout 0 (npu_rt_wait, npu_rt_dma_wait, npu_wait, and the
\* wait that ends npu_rt_exec_conv / fc / pool / eltwise) never returns
\* Timeout, and when the hardware eventually sets done or error it returns.
C8_BlockingWaitReturns ==
    /\ [][ Blocking => op'.ret \notin TimeoutCodes ]_vars
    /\ Blocking ~> (pc.call = "none")

C8_Witness ==
    /\ op = Returned("npu_rt_exec_conv", "FW_OK")
    /\ g_ctx.state = "NPU_STATE_DONE"

FaultCodes == {"FW_ERROR_HW_FAULT", "NPU_ERROR_HW_ERROR"}

\* the status has the hardware error bit
ErrorBit(status) ==
    IF Fw THEN status \cap STATUS_ERROR # {} ELSE status \cap NPU_STATUS_ERROR # {}

\* a start after this step is refused as busy
StartRefused ==
    IF Fw THEN npu_rt_start(g_initialized', g_ctx', ctrl').ret = "FW_ERROR_BUSY"
    ELSE npu_run(ctx', ctrl').ret = "NPU_ERROR_BUSY"

C10_AbortEndsIdleOrError ==
    ((Fw /\ g_initialized /\ op.name = "npu_rt_stop") \/ op.name = "npu_abort")
        => \/ /\ op.ret \in {"FW_OK", "NPU_OK"}
              /\ (IF Fw THEN g_ctx.state ELSE ctx.state) = "NPU_STATE_IDLE"
           \/ /\ op.ret \in FaultCodes
              /\ InError

\* the performance counter registers of the driver (npu_driver.h)
PerfRegs ==
    {"NPU_REG_PERF_CYCLES", "NPU_REG_PERF_INST", "NPU_REG_PERF_MAC",
     "NPU_REG_PERF_STALL"}

\* entry w is logged in writes, and entries w1, w2 in this order
Written(w) == \E i \in 1..Len(writes) : writes[i] = w

WrittenInOrder(w1, w2) ==
    \E i, j \in 1..Len(writes) : i < j /\ writes[i] = w1 /\ writes[j] = w2

\* C11: npu_reset, called in any state, returns success with the state Idle
\* after asserting and then deasserting the reset bit with the device
\* enabled, clearing all IRQ-status bits and clearing the performance
\* counters: the cached statistics are zero and each hardware counter
\* register was written to zero.
C11_ResetClearsCounters ==
    op.name = "npu_reset"
        => /\ op.ret = "NPU_OK"
           /\ ctx.state = "NPU_STATE_IDLE"
           /\ ctrl = NPU_CTRL_ENABLE
           /\ WrittenInOrder(WrBits("NPU_REG_CTRL", NPU_CTRL_RESET),
                             WrBits("NPU_REG_CTRL", NPU_CTRL_ENABLE))
           /\ Written(WrBits("NPU_REG_IRQ_STATUS", AllBits))
           /\ ctx.perf_stats = ZeroStats
           /\ \A reg \in PerfRegs : Written(Wr(reg, Zero32))

\* the number of entries of log for target t
CountOf(log, t) == Cardinality({i \in 1..Len(log) : log[i].t = t})

\* C12: an invocation of npu_rt_irq_handler that read irq_status leaves the
\* state Error when the error bit was set and Done when only the done bit
\* was set, and otherwise leaves it alone; it calls the registered completion
\* callback once if the done bit was set and not otherwise, the registered
\* error callback once if the error bit was set and not otherwise; and its
\* last effect, and only register write, is the write of irq_status to the
\* IRQ-status register.
C12_IrqHandlerCallsBack ==
    [][ (Fw /\ Calls({"npu_rt_irq_handler"}))
            => \E irq_status \in IrqStatusValues :
                  LET done  == irq_status \cap IRQ_DONE # {}
                      error == irq_status \cap IRQ_ERROR # {}
                  IN  /\ g_ctx'.state =
                            IF error THEN "NPU_STATE_ERROR"
                            ELSE IF done THEN "NPU_STATE_DONE"
                            ELSE g_ctx.state
                      /\ CountOf(writes', "done_callback") =
                            IF done /\ g_ctx.done_callback # "NULL" THEN 1 ELSE 0
                      /\ CountOf(writes', "error_callback") =
                            IF error /\ g_ctx.error_callback # "NULL" THEN 1 ELSE 0
                      /\ writes'[Len(writes')] = WrBits("REG_IRQ_STATUS", irq_status)
                      /\ Len(writes') = 1 + CountOf(writes', "done_callback")
                                          + CountOf(writes', "error_callback")
                      /\ UNCHANGED <<ctrl, pc>> ]_vars

C12_Witness ==
    /\ op.name = "npu_rt_irq_handler"
    /\ writes = << Invoke("done_callback"), WrBits("REG_IRQ_STATUS", IRQ_DONE) >>
    /\ g_ctx.state = "NPU_STATE_DONE"
    /\ g_ctx.error_callback # "NULL"

\* the registers a DMA transfer is programmed with
DmaRegs == {"REG_DMA_SRC", "REG_DMA_DST", "REG_DMA_LEN", "REG_DMA_SRC_STRIDE",
            "REG_DMA_DST_STRIDE", "REG_DMA_CTRL"}

\* C13: npu_rt_dma_start programs a transfer only when the engine was not
\* busy at entry or the wait for it (at most 100000 us) returned FW_OK: then
\* it writes source, destination, length and control and counts the
\* transfer.  When the engine was busy and the wait returned a timeout or
\* a DMA error, it returns that error, writes no register and counts nothing.
C13_DmaStartWaitsForEngine ==
    /\ \A desc \in DmaDescs, e \in DmaEnv :
          LET d == npu_rt_dma_start(g_ctx, desc, e)
          IN  IF e.busy /\ e.r0 # "FW_OK"
              THEN /\ e.r0 \in {"FW_ERROR_TIMEOUT", "FW_ERROR_DMA"}
                   /\ d.ret = e.r0
                   /\ d.wr = <<>>
                   /\ d.ctx = g_ctx
              ELSE /\ d.ret = "FW_OK"
                   /\ {"REG_DMA_SRC", "REG_DMA_DST", "REG_DMA_LEN", "REG_DMA_CTRL"}
                         \subseteq Targets(d.wr)
                   /\ d.ctx.perf.dma_transfers = g_ctx.perf.dma_transfers + 1
    /\ (Fw /\ op.name = "npu_rt_dma_start" /\ op.ret # "FW_OK") => writes = <<>>
    /\ ~wait_loop_cond(MulSmall32(U32(CeilDiv10(U32(100000))), poll_interval),
                       U32(100000))

C13_Witness ==
    /\ op = Returned("npu_rt_dma_start", "FW_ERROR_TIMEOUT")
    /\ writes = <<>>
    /\ g_ctx.perf.dma_transfers = 1

\* a descriptor whose 2D fields are set without the 2D-mode flag, or a 2D
\* descriptor whose width x height (elements of one byte) is not its length
Invalid2D(desc) ==
    IF desc.flags \cap DMA_FLAG_2D = {}
    THEN desc.src_stride # 0 \/ desc.dst_stride # 0
            \/ desc.width # 0 \/ desc.height # 0
    ELSE U32(desc.width * desc.height) # desc.length

\* C14: npu_rt_dma_start called with a descriptor whose 2D fields are set
\* while the 2D-mode flag is clear, or with a 2D descriptor whose width x
\* height x element size differs from its length, returns an error and
\* writes no DMA register.
C14_InvalidDescriptorRejected ==
    [][ \A desc \in DmaDescs :
            (g_initialized /\ Invalid2D(desc) /\ Do_npu_rt_dma_start(desc))
                => (op'.ret # "FW_OK" /\ writes' = <<>>) ]_vars

\* the number of writes in log that assert the DMA start bit
StartsIn(log) ==
    Cardinality({i \in 1..Len(log) :
                    log[i].t = "REG_DMA_CTRL" /\ DMA_CTRL_START \subseteq log[i].bits})

\* this step is a call that clears the firmware context or its statistics
ClearsPerf ==
    /\ Idle
    /\ \/ op'.name = "npu_rt_reset_perf"
       \/ op'.name = "npu_rt_init" /\ op'.ret = "FW_OK"
       \/ op'.name = "npu_rt_deinit" /\ g_initialized

\* C15: dma_transfers counts the DMA start bits asserted: a call adds to it
\* the number of writes to the DMA control register with the start bit that
\* it made, whatever the transfer's end and the call's return value; the
\* steps of a wait, npu_rt_get_perf and npu_rt_irq_handler leave it alone;
\* only npu_rt_init, npu_rt_deinit and npu_rt_reset_perf set it to zero.
C15_TransfersCounted ==
    [][ Fw => g_ctx'.perf.dma_transfers =
                IF ClearsPerf THEN 0
                ELSE g_ctx.perf.dma_transfers
                        + (IF Idle THEN StartsIn(writes') ELSE 0) ]_vars

C15_Witness ==
    /\ op = Returned("npu_rt_get_perf", "FW_OK")
    /\ g_ctx.perf.dma_transfers = 2
    /\ g_ctx.perf.total_cycles > 0

\* C16: after a performance read (npu_rt_get_perf, npu_get_perf_stats) that
\* observed total_cycles = 0 the utilization in the statistics is 0.
C16_ZeroCyclesZeroUtilization ==
    /\ (Fw /\ g_initialized /\ op = Returned("npu_rt_get_perf", "FW_OK")
           /\ g_ctx.perf.total_cycles = 0) => g_ctx.perf.pe_utilization = 0
    /\ (Drv /\ op = Returned("npu_get_perf_stats", "NPU_OK")
           /\ ctx.perf_stats.total_cycles = 0) => ctx.perf_stats.utilization = 0

\* the header is one load_model must reject
BadFwHeader(header) ==
    header.magic # MODEL_MAGIC \/ header.version > MODEL_VERSION

BadRtHeader(header) ==
    header.magic # NPU_MODEL_MAGIC \/ header.version > NPU_MODEL_VERSION

\* C17: npu_rt_load_model and npu_model_load_memory, given a model whose
\* magic is not the expected constant or whose version is above the
\* supported version, fail (an error status, a NULL model) with nothing
\* copied or written and the context and the model slots as before.
C17_InvalidModelRejected ==
    [][ /\ \A a \in FwModelArgs :
              (g_initialized /\ BadFwHeader(a[3])
                    /\ Do_npu_rt_load_model(a[1], a[2], a[3]))
                 => (op'.ret # "FW_OK" /\ writes' = <<>> /\ UNCHANGED g_ctx)
        /\ \A a \in RtModelArgs :
              (BadRtHeader(a[3]) /\ Do_npu_model_load_memory(a[1], a[2], a[3]))
                 => (op'.ret = "NULL" /\ writes' = <<>> /\ UNCHANGED runtime) ]_vars

\* the instruction buffer, the weight buffer and their registers
ModelTargets ==
    {"inst_buf", "REG_INST_SIZE", "REG_INST_PTR", "weight_buf", "REG_WEIGHT_SIZE"}

\* C18: a call of npu_rt_load_model that fails leaves the instruction
\* buffer, the instruction and weight registers, inst_count and total_layers
\* as they were.
C18_FailedLoadModelChangesNothing ==
    [][ (Fw /\ g_initialized /\ Calls({"npu_rt_load_model"}) /\ op'.ret # "FW_OK")
            => /\ Targets(writes') \cap ModelTargets = {}
               /\ g_ctx'.inst_count = g_ctx.inst_count
               /\ g_ctx'.total_layers = g_ctx.total_layers ]_vars

\* the firmware operations that need the runtime initialised
FwOperations ==
    {"npu_rt_load_model", "npu_rt_load_instructions", "npu_rt_load_weights",
     "npu_rt_load_input", "npu_rt_start", "npu_rt_stop", "npu_rt_wait",
     "npu_rt_read_output", "npu_rt_dma_start", "npu_rt_exec_layer",
     "npu_rt_exec_conv", "npu_rt_exec_fc", "npu_rt_exec_pool",
     "npu_rt_exec_eltwise"}

\* C19: a firmware operation called while the runtime is not initialised
\* (before npu_rt_init, after npu_rt_deinit) returns FW_ERROR_NOT_READY (or
\* rejects a NULL argument or an unsupported layer type) and writes no
\* register.
C19_NotInitializedWritesNothing ==
    [][ (Fw /\ ~g_initialized /\ Calls(FwOperations))
            => /\ op'.ret \in {"FW_ERROR_NOT_READY", "FW_ERROR_INVALID_PARAM",
                               "FW_ERROR_INVALID_OP"}
               /\ writes' = <<>> ]_vars

\* C20: the instruction built by MAKE_INST from an 8-bit opcode, 8-bit flags
\* and a 64-bit operand has the opcode in bits 63..56, the flags in bits
\* 55..48 and the operand modulo 2^48 in bits 47..0, and inst_get_opcode,
\* inst_get_flags and inst_get_operands return them.
C20_DecodeOfEncode ==
    inst.built
        => /\ inst.raw = U64(inst.opcode * 256 + inst.flags, inst.operands[2],
                             inst.operands[3], inst.operands[4])
           /\ inst_get_opcode(inst.raw) = inst.opcode
           /\ inst_get_flags(inst.raw) = inst.flags
           /\ inst_get_operands(inst.raw) =
                 U64(0, inst.operands[2], inst.operands[3], inst.operands[4])

C20_Witness ==
    /\ inst.built
    /\ inst.opcode = 255
    /\ inst.flags = 128
    /\ inst.operands = U64(256, 0, 0, 5)
    /\ inst.raw = U64(65408, 0, 0, 5)

\* C26: a call of npu_rt_start that returns FW_OK writes, in this order, 0
\* to the instruction pointer, all ones to the IRQ status and the control
\* register's value with the start bit added (its other bits as they were),
\* and leaves the state Running with inst_ptr 0.
C26_StartWritesInOrder ==
    [][ (Fw /\ Calls({"npu_rt_start"}) /\ op'.ret = "FW_OK")
            => /\ g_ctx.state # "NPU_STATE_RUNNING"
               /\ writes' = << Wr("REG_INST_PTR", Zero32),
                               WrBits("REG_IRQ_STATUS", AllBits),
                               WrBits("REG_CTRL", ctrl \cup CTRL_START) >>
               /\ ctrl' = ctrl \cup CTRL_START
               /\ g_ctx'.state = "NPU_STATE_RUNNING"
               /\ g_ctx'.inst_ptr = Zero32 ]_vars

C26_Witness ==
    /\ op = Returned("npu_rt_start", "FW_OK")
    /\ writes[3] = WrBits("REG_CTRL", CTRL_ENABLE \cup CTRL_START)
    /\ ctrl = CTRL_ENABLE \cup CTRL_START
    /\ g_ctx.state = "NPU_STATE_RUNNING"
    /\ g_ctx.inst_count # Zero32

\* the builder of opcode opc applied to <<src, dst, len>>
InstDma(opc, t) == Inst(opc, 0, dma_operand(t[1], t[2], t[3]))

\* the <<opcode, <<src, dst, len>>>> of the DMA instructions the call builds
DmaBuilt(fn, layer) ==
    CASE builder(fn, layer) \in {"npu_rt_exec_conv", "npu_rt_exec_fc"} ->
            LET l == IF builder(fn, layer) = "npu_rt_exec_fc"
                     THEN fc_as_conv(layer) ELSE layer
            IN  { <<OP_DMA_LOAD_W,
                    <<Add32(l.weight.addr, weight_offset(l, t)), Zero32,
                      weight_size(l, t)>> >> : t \in 0..(oc_tiles(l) - 1) }
      [] builder(fn, layer) = "npu_rt_exec_pool" ->
            { <<OP_DMA_LOAD_A, <<layer.input.addr, Zero32, TENSOR_BYTES(layer.input)>> >>,
              <<OP_DMA_STORE, <<Zero32, layer.output.addr, TENSOR_BYTES(layer.output)>> >> }
      [] builder(fn, layer) = "npu_rt_exec_eltwise" ->
            { <<OP_DMA_LOAD_A, <<layer.input.addr, Zero32, TENSOR_BYTES(layer.input)>> >>,
              <<OP_DMA_LOAD_A, <<Input2(layer).addr, TENSOR_BYTES(layer.input),
                                 TENSOR_BYTES(layer.input)>> >>,
              <<OP_DMA_STORE, <<Zero32, layer.output.addr, TENSOR_BYTES(layer.output)>> >> }
      [] OTHER -> {}

\* sources and destinations below 2^24
Below24(t) == t[1][1] < 256 /\ t[2][1] < 256

\* triples <<src, dst, len>> with sources and destinations below 2^24
DmaTriples ==
    { <<src, dst, len>> :
        src \in {Zero32, U32(256), U32(2048)},
        dst \in {Zero32, U32(256), U32(W16)},
        len \in {U32(0), U32(1), U32(32), U32(255), U32(256), U32(1024)} }

\* C21: the DMA instruction an exec function builds from a source and a
\* destination below 2^24 and its length is the instruction of no other
\* triple (source, destination, length): the packing loses nothing.
C21_DmaPackingLossless ==
    exec.fn # "none"
        => \A b \in DmaBuilt(exec.fn, exec.layer) :
              Below24(b[2])
                 => \A t \in DmaTriples :
                       InstDma(b[1], t) = InstDma(b[1], b[2]) => t = b[2]

\* a call that reached npu_rt_exec_conv with a convolution layer
ConvBuilt ==
    /\ exec.fn # "none"
    /\ exec.layer.type \in {"LAYER_CONV2D", "LAYER_DWCONV2D"}
    /\ builder(exec.fn, exec.layer) = "npu_rt_exec_conv"

\* the positions of the instructions of opcode opc
At(opc) == { i \in DOMAIN exec.inst_buf : inst_get_opcode(exec.inst_buf[i]) = opc }

\* the positions where an instruction of opcode a is followed by one of opcode b
Pairs(a, b) == { i \in At(a) : i + 1 \in At(b) }

T_oc == (exec.layer.output.c + 15) \div 16

T_ic == (exec.layer.input.c + 15) \div 16

C22_Counts ==
    /\ Cardinality(Pairs(OP_DMA_LOAD_W, OP_WAIT_DMA)) = T_oc
    /\ Cardinality(At(OP_DMA_LOAD_W)) = T_oc
    /\ Cardinality(At(OP_WAIT_DMA)) = T_oc
    /\ Cardinality(Pairs(OP_LOAD_WEIGHT, OP_COMPUTE)) = T_oc * T_ic
    /\ Cardinality(At(OP_LOAD_WEIGHT)) = T_oc * T_ic
    /\ Cardinality(At(OP_COMPUTE)) = T_oc * T_ic
    /\ Cardinality(At(OP_DRAIN)) = T_oc
    /\ Cardinality(At(OP_CLEAR_ACC)) = 1 + (T_oc - 1)
    /\ Cardinality(At(OP_HALT)) = 1
    /\ Len(exec.inst_buf) = 1 + T_oc * (4 + 2 * T_ic)

\* C22 as stated: the convolution lowering emits T_oc weight-DMA-load/wait
\* pairs, T_oc x T_ic load-weight/compute pairs, T_oc drains, 1 + (T_oc - 1)
\* clear-accumulators and 1 halt, and for out_ch = in_ch = 32 that is 14
\* instructions.
C22_ConvCounts14 ==
    ConvBuilt
        => /\ C22_Counts
           /\ (exec.layer.output.c = 32 /\ exec.layer.input.c = 32)
                 => Len(exec.inst_buf) = 14

\* C22: the convolution lowering emits T_oc weight-DMA-load/wait pairs,
\* T_oc x T_ic load-weight/compute pairs, T_oc drains, 1 + (T_oc - 1)
\* clear-accumulators and 1 halt and nothing else, and for
\* out_ch = in_ch = 32 that is 2 pairs, 4 pairs, 2 drains, 2 clears and
\* 1 halt: 17 instructions.
C22_ConvCounts ==
    ConvBuilt
        => /\ C22_Counts
           /\ (exec.layer.output.c = 32 /\ exec.layer.input.c = 32)
                 => /\ Cardinality(Pairs(OP_DMA_LOAD_W, OP_WAIT_DMA)) = 2
                    /\ Cardinality(Pairs(OP_LOAD_WEIGHT, OP_COMPUTE)) = 4
                    /\ Cardinality(At(OP_DRAIN)) = 2
                    /\ Cardinality(At(OP_CLEAR_ACC)) = 2
                    /\ Cardinality(At(OP_HALT)) = 1
                    /\ Len(exec.inst_buf) = 17

C22_Witness ==
    /\ ConvBuilt
    /\ exec.fn = "npu_rt_exec_conv"
    /\ exec.layer.output.c = 32
    /\ exec.layer.input.c = 32
    /\ Len(exec.inst_buf) = 17

\* the instruction at position i carries FLAG_RELU
HasRelu(i) == (inst_get_flags(exec.inst_buf[i]) \div FLAG_RELU) % 2 = 1

\* the number of compute instructions before position i
Rank(i) == Cardinality({ j \in At(OP_COMPUTE) : j < i })

\* the compute at position i is that of the last input-channel tile of its
\* output-channel tile
LastIcTile(i) == Rank(i) % T_ic = T_ic - 1

\* C23: when the convolution layer specifies ReLU, the compute instruction
\* of the last input-channel tile of every output-channel tile carries the
\* activation-fusion flag and no other compute instruction does; when the
\* layer specifies no activation, no compute instruction carries the flag.
C23_ReluOnLastIcTile ==
    ConvBuilt
        => /\ exec.layer.activation = "ACT_RELU"
                 => /\ \A i \in At(OP_COMPUTE) : HasRelu(i) <=> LastIcTile(i)
                    /\ Cardinality({ i \in At(OP_COMPUTE) : HasRelu(i) }) = T_oc
           /\ exec.layer.activation = "ACT_NONE"
                 => \A i \in At(OP_COMPUTE) : ~HasRelu(i)

C23_Witness ==
    /\ ConvBuilt
    /\ exec.layer.activation = "ACT_RELU"
    /\ T_ic = 3
    /\ T_oc = 2
    /\ Cardinality({ i \in At(OP_COMPUTE) : HasRelu(i) }) = 2
    /\ Cardinality({ i \in At(OP_COMPUTE) : ~HasRelu(i) }) = 4

\* C24: an exec function never stores more instructions into its local
\* inst_buf than the array has entries (256 for npu_rt_exec_conv and
\* npu_rt_exec_fc, 32 for npu_rt_exec_pool and npu_rt_exec_eltwise); a layer
\* whose tiling needs more is refused with an error status.
C24_BufferBoundEnforced ==
    exec.fn # "none"
        => /\ Len(exec.inst_buf) <= exec.entries
           /\ exec.after = "goes on"

\* what the exec function fn does with the layer of the call
SameAs(fn) ==
    LET o == Exec(fn, g_initialized, g_ctx, ctrl, exec.layer)
    IN  /\ exec.inst_buf = sequence_of(fn, exec.layer)
        /\ exec.wr = o.wr
        /\ exec.after = "goes on" => exec.ret = o.ret

\* C25: npu_rt_exec_layer hands conv2d and depthwise-conv2d layers to the
\* convolution lowering, fully-connected layers to the FC lowering,
\* max/avg/global-avg pool layers to the pooling lowering and elementwise-add
\* layers to the elementwise lowering; for any other kind it returns
\* FW_ERROR_INVALID_OP, writes no register and starts nothing.
C25_ExecLayerRoutes ==
    exec.fn = "npu_rt_exec_layer"
        => CASE exec.layer.type \in {"LAYER_CONV2D", "LAYER_DWCONV2D"} ->
                    SameAs("npu_rt_exec_conv")
             [] exec.layer.type = "LAYER_FC" -> SameAs("npu_rt_exec_fc")
             [] exec.layer.type \in {"LAYER_MAXPOOL", "LAYER_AVGPOOL",
                                     "LAYER_GLOBAL_AVGPOOL"} ->
                    SameAs("npu_rt_exec_pool")
             [] exec.layer.type = "LAYER_ADD" ->
                    /\ exec.ret # "FW_ERROR_INVALID_OP"
                    /\ At(OP_ADD) # {}
             [] OTHER ->
                    /\ exec.ret = "FW_ERROR_INVALID_OP"
                    /\ exec.wr = <<>>
                    /\ exec.inst_buf = <<>>

\* the routes npu_rt_exec_layer has
C25_RoutesOtherThanAdd ==
    (exec.fn = "npu_rt_exec_layer" /\ exec.layer.type # "LAYER_ADD")
        => C25_ExecLayerRoutes

\* the opcode at position i
OpAt(i) == inst_get_opcode(exec.inst_buf[i])

\* the instructions of one output-channel tile, its trailing clear or the
\* halt included
TileLen == 4 + 2 * T_ic

\* the opcode position i has in
\* CLEAR_ACC ( DMA_LOAD_W WAIT_DMA ( LOAD_WEIGHT COMPUTE )^T_ic DRAIN [CLEAR_ACC] )^T_oc HALT
ShapeOp(i) ==
    IF i = 1 THEN OP_CLEAR_ACC
    ELSE LET t == (i - 2) \div TileLen
             r == (i - 2) % TileLen
         IN  IF r = 0 THEN OP_DMA_LOAD_W
             ELSE IF r = 1 THEN OP_WAIT_DMA
             ELSE IF r < 2 + 2 * T_ic
                  THEN (IF r % 2 = 0 THEN OP_LOAD_WEIGHT ELSE OP_COMPUTE)
             ELSE IF r = 2 + 2 * T_ic THEN OP_DRAIN
             ELSE IF t = T_oc - 1 THEN OP_HALT ELSE OP_CLEAR_ACC

\* C27: the convolution sequence has the shape
\* CLEAR_ACC ( DMA_LOAD_W WAIT_DMA ( LOAD_WEIGHT COMPUTE )^T_ic DRAIN [CLEAR_ACC] )^T_oc HALT:
\* it starts with a clear-accumulator, every weight-DMA-load is followed at
\* once by a wait-for-DMA, every compute is preceded at once by a
\* load-weight, each tile's drain comes after all of its computes, a
\* clear-accumulator follows every drain but the last, and the one halt,
\* carrying FLAG_LAST, is the final instruction.
C27_ConvShape ==
    ConvBuilt
        => LET n == Len(exec.inst_buf)
           IN  /\ n = 1 + T_oc * TileLen
               /\ \A i \in 1..n : OpAt(i) = ShapeOp(i)
               /\ OpAt(1) = OP_CLEAR_ACC
               /\ \A i \in At(OP_DMA_LOAD_W) : i + 1 \in At(OP_WAIT_DMA)
               /\ \A i \in At(OP_COMPUTE) : i - 1 \in At(OP_LOAD_WEIGHT)
               /\ \A i \in At(OP_DRAIN) :
                     /\ i - 1 \in At(OP_COMPUTE)
                     /\ Rank(i) = T_ic * (Cardinality({ j \in At(OP_DRAIN) : j < i }) + 1)
                     /\ i + 1 \in (IF i + 1 = n THEN At(OP_HALT) ELSE At(OP_CLEAR_ACC))
               /\ At(OP_HALT) = {n}
               /\ inst_get_flags(exec.inst_buf[n]) = FLAG_LAST
               /\ \A i \in 1..(n - 1) : inst_get_flags(exec.inst_buf[i]) % 2 = 0

C27_Witness ==
    /\ ConvBuilt
    /\ T_oc = 3
    /\ T_ic = 2
    /\ Len(exec.inst_buf) = 25
    /\ OpAt(9) = OP_CLEAR_ACC
    /\ OpAt(24) = OP_DRAIN
    /\ OpAt(25) = OP_HALT
    /\ inst_get_flags(exec.inst_buf[25]) = FLAG_LAST

\* the value of a 32-bit word below 2^31
AsInt(x) == x[1] * W16 + x[2]

\* the position of the weight-DMA-load of output-channel tile k
DmaPos(k) == 2 + k * TileLen

\* bits 0..23 of the operand, where the builders put the source
SrcField(raw) == (inst_get_operands(raw)[3] % 256) * W16 + inst_get_operands(raw)[4]

\* the bits of the operand from bit 40 up, where the builders put the length
LenField(raw) == inst_get_operands(raw)[2] \div 256

\* the weights of one output channel
PerOutputChannel == exec.layer.input.c * exec.layer.kernel_h * exec.layer.kernel_w

\* the output channels of tile k
OcCount(k) ==
    IF 16 * (k + 1) > exec.layer.output.c THEN exec.layer.output.c - 16 * k ELSE 16

\* the source of the weight-DMA-load of every tile is found in its operand
C28_SourceCarried ==
    ConvBuilt
        => \A k \in 0..(T_oc - 1) :
              SrcField(exec.inst_buf[DmaPos(k)])
                 = AsInt(exec.layer.weight.addr) + 16 * k * PerOutputChannel

\* C28: the weight-DMA-load of output-channel tile k carries in its operand
\* the source weight.addr + 16k x in_ch x k_h x k_w and the length
\* oc_count_k x in_ch x k_h x k_w, so that the tiles' ranges follow one
\* another without gap or overlap and cover out_ch x in_ch x k_h x k_w bytes.
C28_WeightDmaCarriesRange ==
    ConvBuilt
        => /\ \A k \in 0..(T_oc - 1) :
                 /\ OpAt(DmaPos(k)) = OP_DMA_LOAD_W
                 /\ SrcField(exec.inst_buf[DmaPos(k)])
                       = AsInt(exec.layer.weight.addr) + 16 * k * PerOutputChannel
                 /\ LenField(exec.inst_buf[DmaPos(k)]) = OcCount(k) * PerOutputChannel
           /\ \A k \in 0..(T_oc - 2) :
                 SrcField(exec.inst_buf[DmaPos(k)]) + LenField(exec.inst_buf[DmaPos(k)])
                    = SrcField(exec.inst_buf[DmaPos(k + 1)])
           /\ SrcField(exec.inst_buf[DmaPos(T_oc - 1)])
                 + LenField(exec.inst_buf[DmaPos(T_oc - 1)])
                 = AsInt(exec.layer.weight.addr) + exec.layer.output.c * PerOutputChannel

\* the position of the drain of output-channel tile k
DrainPos(k) == DmaPos(k) + 2 + 2 * T_ic

\* the address the drain of output-channel tile k carries
DrainAddr(k) ==
    inst_get_operands(exec.inst_buf[DrainPos(k)])[3] * W16
        + inst_get_operands(exec.inst_buf[DrainPos(k)])[4]

\* the output elements of one channel
PerChannel == exec.layer.output.h * exec.layer.output.w

\* C29: the drain of output-channel tile k carries the address
\* output.addr + 16k x out_h x out_w; over the tiles of a layer the drain
\* addresses increase strictly and the output ranges of two tiles do not
\* overlap.
C29_DrainAddresses ==
    ConvBuilt
        => /\ \A k \in 0..(T_oc - 1) :
                 /\ OpAt(DrainPos(k)) = OP_DRAIN
                 /\ inst_get_operands(exec.inst_buf[DrainPos(k)])[2] = 0
                 /\ DrainAddr(k) = AsInt(exec.layer.output.addr) + 16 * k * PerChannel
           /\ \A k \in 0..(T_oc - 2) : DrainAddr(k) < DrainAddr(k + 1)
           /\ \A j, k \in 0..(T_oc - 1) :
                 j < k => DrainAddr(j) + OcCount(j) * PerChannel <= DrainAddr(k)

C29_Witness ==
    /\ ConvBuilt
    /\ T_oc = 3
    /\ exec.layer.output.c = 40
    /\ DrainAddr(0) = 2048
    /\ DrainAddr(1) = 2048 + 1024
    /\ DrainAddr(2) = 2048 + 2048

\* the position of the load-weight of input-channel tile j of
\* output-channel tile k; its compute follows it
LoadWeightPos(k, j) == DmaPos(k) + 2 + 2 * j

\* bits 0..23 and bits 24..47 of the operand of the instruction at position i
Low24(i) ==
    (inst_get_operands(exec.inst_buf[i])[3] % 256) * W16
        + inst_get_operands(exec.inst_buf[i])[4]

High24(i) ==
    inst_get_operands(exec.inst_buf[i])[2] * 256
        + inst_get_operands(exec.inst_buf[i])[3] \div 256

\* the numbers the two instructions of input-channel tile j of
\* output-channel tile k carry in their operands
IcTileFields(k, j) ==
    { Low24(LoadWeightPos(k, j)), High24(LoadWeightPos(k, j)),
      Low24(LoadWeightPos(k, j) + 1), High24(LoadWeightPos(k, j) + 1) }

RECURSIVE SumCounts(_)
\* the counts of the first load-weight of tiles 0..k, added up
SumCounts(k) ==
    IF k < 0 THEN 0 ELSE High24(LoadWeightPos(k, 0)) + SumCounts(k - 1)

\* the load-weights of every output-channel tile carry that tile's channel
\* count: 16 in all tiles but the last, out_ch - 16 (T_oc - 1) in the last,
\* out_ch in sum
C30_OutputTileCounts ==
    ConvBuilt
        => /\ \A k \in 0..(T_oc - 1) : \A j \in 0..(T_ic - 1) :
                 /\ OpAt(LoadWeightPos(k, j)) = OP_LOAD_WEIGHT
                 /\ High24(LoadWeightPos(k, j))
                       = (IF k < T_oc - 1 THEN 16
                          ELSE exec.layer.output.c - 16 * (T_oc - 1))
           /\ exec.layer.output.c % 16 # 0
                 => \A j \in 0..(T_ic - 1) :
                       High24(LoadWeightPos(T_oc - 1, j)) = exec.layer.output.c % 16
           /\ SumCounts(T_oc - 1) = exec.layer.output.c

\* C30: a channel count that is no multiple of 16 gives a partial last tile
\* that carries the remainder as its count: the load-weights of the last
\* output-channel tile carry out_ch mod 16 (the earlier tiles 16, out_ch in
\* sum), and the last input-channel tile carries in_ch mod 16.
C30_PartialTilesCarryRemainder ==
    ConvBuilt
        => /\ C30_OutputTileCounts
           /\ exec.layer.input.c % 16 # 0
                 => \A k \in 0..(T_oc - 1) :
                       (exec.layer.input.c % 16) \in IcTileFields(k, T_ic - 1)

\* the instruction count the runtime model hands to npu_rt_load_instructions
\* is the length of the sequence built
ConvSequenceLength ==
    ConvBuilt => Len(exec.inst_buf) = conv_inst_idx(exec.layer)

\* a call that reached npu_rt_exec_fc
FcBuilt ==
    /\ exec.fn # "none"
    /\ exec.layer.type = "LAYER_FC"
    /\ builder(exec.fn, exec.layer) = "npu_rt_exec_fc"

\* the flattened input of the fully-connected layer of the call
Flattened == exec.layer.input.c * exec.layer.input.h * exec.layer.input.w

\* the 1x1 convolution layer a fully-connected layer stands for: kernel 1x1,
\* stride 1, no padding, 1x1 input and output, the flattened input as its
\* channel count
AsConvolution(layer) ==
    [layer EXCEPT !.type = "LAYER_CONV2D", !.kernel_h = 1, !.kernel_w = 1,
                  !.stride_h = 1, !.stride_w = 1,
                  !.pad_top = 0, !.pad_bottom = 0,
                  !.pad_left = 0, !.pad_right = 0,
                  !.input = [layer.input EXCEPT
                                !.c = layer.input.c * layer.input.h * layer.input.w,
                                !.h = 1, !.w = 1],
                  !.output = [layer.output EXCEPT !.h = 1, !.w = 1]]

\* C31: npu_rt_exec_fc builds the sequence the convolution lowering builds
\* for the 1x1-kernel, stride-1, unpadded layer with 1x1 output whose input
\* channel count is the product input.c x input.h x input.w, so that every
\* output-channel tile has ceil(c x h x w / 16) load-weight/compute pairs.
C31_FcIsFlattenedConv ==
    FcBuilt
        => /\ exec.inst_buf = conv_sequence(AsConvolution(exec.layer))
           /\ Cardinality(Pairs(OP_LOAD_WEIGHT, OP_COMPUTE))
                 = T_oc * ((Flattened + 15) \div 16)

\* the same for the layers whose flattened input is below 2^16
C31_FcIsFlattenedConvBelow16Bits ==
    (FcBuilt /\ Flattened < W16) => C31_FcIsFlattenedConv

\* a call that reached npu_rt_exec_pool
PoolBuilt ==
    /\ exec.fn # "none"
    /\ builder(exec.fn, exec.layer) = "npu_rt_exec_pool"

\* n x c x h x w x element size, as a number
Bytes(t) == t.n * t.c * t.h * t.w * (IF t.dtype = 0 THEN 1 ELSE 2)

\* the opcodes of the sequence, in order
Opcodes == [i \in DOMAIN exec.inst_buf |-> OpAt(i)]

\* the pooling instruction: its opcode by kind, its operand
\* pool_h | pool_w << 8 | stride_h << 16 | stride_w << 24
C32_PoolingInstruction ==
    PoolBuilt
        => /\ Len(exec.inst_buf) = 6
           /\ OpAt(3) = (CASE exec.layer.type = "LAYER_MAXPOOL" -> 80
                           [] exec.layer.type = "LAYER_AVGPOOL" -> 81
                           [] exec.layer.type = "LAYER_GLOBAL_AVGPOOL" -> 82)
           /\ inst_get_flags(exec.inst_buf[3]) = 0
           /\ inst_get_operands(exec.inst_buf[3])
                 = U64(0, 0, exec.layer.pool_stride_h + 256 * exec.layer.pool_stride_w,
                       exec.layer.pool_h + 256 * exec.layer.pool_w)

\* the six instructions in their order
C32_PoolOrder ==
    PoolBuilt
        => Opcodes = << OP_DMA_LOAD_A, OP_WAIT_DMA, pool_op(exec.layer),
                        OP_DMA_STORE, OP_WAIT_DMA, OP_HALT >>

\* C32: npu_rt_exec_pool builds six instructions: an activation DMA load of
\* the input's byte size, a wait-for-DMA, one pooling instruction (opcode
\* 0x50 for max, 0x51 for average, 0x52 for global average, operand
\* pool_h | pool_w << 8 | stride_h << 16 | stride_w << 24), a DMA store of
\* the output's byte size, a wait-for-DMA and a halt.
C32_PoolSequence ==
    PoolBuilt
        => /\ C32_PoolOrder
           /\ C32_PoolingInstruction
           /\ SrcField(exec.inst_buf[1]) = AsInt(exec.layer.input.addr)
           /\ LenField(exec.inst_buf[1]) = Bytes(exec.layer.input)
           /\ High24(4) % W16 = AsInt(exec.layer.output.addr)
           /\ LenField(exec.inst_buf[4]) = Bytes(exec.layer.output)
           /\ inst_get_flags(exec.inst_buf[6]) = FLAG_LAST

\* the same for tensors of less than 256 bytes
C32_PoolSequenceSmallTensors ==
    (PoolBuilt /\ Bytes(exec.layer.input) < 256) => C32_PoolSequence

\* a call of npu_rt_exec_eltwise
EltwiseBuilt ==
    /\ exec.fn = "npu_rt_exec_eltwise"
    /\ builder(exec.fn, exec.layer) = "npu_rt_exec_eltwise"

\* the destination range [first, last + 1) the DMA instruction at position i
\* carries: destination in bits 24..47, length from bit 40 up
DstRange(i) ==
    { b \in 0..(2 * W16) : High24(i) <= b /\ b < High24(i) + LenField(exec.inst_buf[i]) }

\* the add instruction and the end of the sequence
C33_AddAndTail ==
    EltwiseBuilt
        => /\ Opcodes = << OP_DMA_LOAD_A, OP_WAIT_DMA, OP_DMA_LOAD_A, OP_WAIT_DMA,
                           OP_ADD, OP_DMA_STORE, OP_WAIT_DMA, OP_HALT >>
           /\ inst_get_flags(exec.inst_buf[5])
                 = (IF exec.layer.activation = "ACT_RELU" THEN FLAG_RELU ELSE 0)

\* C33: npu_rt_exec_eltwise loads the first input to offset 0 of the
\* activation buffer with the first input's byte size and the second input
\* to the offset equal to the first input's byte size with the second
\* input's own byte size, so that the destination ranges the two DMA loads
\* carry are disjoint; the add instruction carries the layer's
\* activation-fusion flag and the sequence ends with store, wait, halt.
C33_EltwiseLoadsDisjoint ==
    EltwiseBuilt
        => /\ C33_AddAndTail
           /\ High24(1) = 0
           /\ LenField(exec.inst_buf[1]) = Bytes(exec.layer.input)
           /\ High24(3) = Bytes(exec.layer.input)
           /\ LenField(exec.inst_buf[3]) = Bytes(exec.layer.input2)
           /\ DstRange(1) \cap DstRange(3) = {}

\* the length the second load is built with is that of the first input
C33_SecondLoadHasFirstInputsSize ==
    EltwiseBuilt
        => exec.inst_buf[3]
              = INST_DMA_LOAD_A(exec.layer.input2.addr, U32(Bytes(exec.layer.input)),
                                U32(Bytes(exec.layer.input)))

\* numbers of up to 80 bits: five 16-bit limbs, the least significant first
Limbs(x) == << x[2], x[1], 0, 0, 0 >>

RECURSIVE CarryInto(_, _)
\* the carry into limb i when the limb sums raw are normalised
CarryInto(raw, i) ==
    IF i = 1 THEN 0 ELSE (raw[i - 1] + CarryInto(raw, i - 1)) \div W16

\* x * k for a 16-bit k, without loss
TimesExact(x, k) ==
    LET p   == [i \in 1..5 |-> Mul16(x[i], k)]
        raw == [i \in 1..5 |-> p[i][2] + (IF i > 1 THEN p[i - 1][1] ELSE 0)]
    IN  [i \in 1..5 |-> (raw[i] + CarryInto(raw, i)) % W16]

\* the bytes of one element: 1 for int8, 2 for int16 and fp16, 4 for fp32
ElementSize(dtype) == IF dtype = 0 THEN 1 ELSE IF dtype \in {1, 2} THEN 2 ELSE 4

\* n x c x h x w x element size
ExactBytes(t) ==
    TimesExact(TimesExact(TimesExact(TimesExact(<< t.n, 0, 0, 0, 0 >>, t.c), t.h), t.w),
               ElementSize(t.dtype))

\* C34: the byte size TENSOR_BYTES computes for a descriptor is
\* n x c x h x w x element size for every element type (1 for int8, 2 for
\* int16 and fp16, 4 for fp32) and all 16-bit n, c, h, w: the 32-bit result
\* has not wrapped around.
C34_TensorBytesExact ==
    exec.fn = "TENSOR_BYTES" => Limbs(exec.bytes) = ExactBytes(exec.t)

\* the same for int8, int16 and fp16 tensors of less than 2^32 bytes
C34_TensorBytesBelow32Bits ==
    (/\ exec.fn = "TENSOR_BYTES"
     /\ exec.t.dtype \in {0, 1, 2}
     /\ \A i \in 3..5 : ExactBytes(exec.t)[i] = 0)
        => Limbs(exec.bytes) = ExactBytes(exec.t)

\* the calls of the user callback in log
CallbackCalls(log) ==
    CountOf(log, "callback(NPU_OK)") + CountOf(log, "callback(NPU_ERROR_HW_ERROR)")

\* C35: a call of the driver's npu_irq_handler calls the user callback at
\* most once, and only when the IRQ status it read has the done or the error
\* bit: with neither bit it calls nothing and leaves the state as it was;
\* with the error bit it reports NPU_ERROR_HW_ERROR and the state is Error;
\* with the done bit alone it reports NPU_OK and the state is no longer
\* Running.
C35_DrvHandlerCallsBackOnDoneOrError ==
    [][ (Drv /\ Calls({"npu_irq_handler"}))
            => LET irq_status == writes'[1].bits
                   done  == irq_status \cap NPU_IRQ_DONE # {}
                   error == irq_status \cap NPU_IRQ_ERROR # {}
               IN  /\ writes'[1].t = "NPU_REG_IRQ_STATUS"
                   /\ CallbackCalls(writes') <= 1
                   /\ (~done /\ ~error)
                         => /\ CallbackCalls(writes') = 0
                            /\ ctx'.state = ctx.state
                   /\ error
                         => /\ ctx'.state = "NPU_STATE_ERROR"
                            /\ CountOf(writes', "callback(NPU_ERROR_HW_ERROR)")
                                  = (IF ctx.callback # "NULL" THEN 1 ELSE 0)
                            /\ CountOf(writes', "callback(NPU_OK)") = 0
                   /\ (done /\ ~error)
                         => /\ ctx'.state = "NPU_STATE_IDLE"
                            /\ CountOf(writes', "callback(NPU_OK)")
                                  = (IF ctx.callback # "NULL" THEN 1 ELSE 0)
                            /\ CountOf(writes', "callback(NPU_ERROR_HW_ERROR)") = 0 ]_vars

\* the same without the interrupts that have neither bit
C35_DrvHandlerOnDoneOrError ==
    [][ (/\ Drv /\ Calls({"npu_irq_handler"})
         /\ writes'[1].bits \cap (NPU_IRQ_DONE \cup NPU_IRQ_ERROR) # {})
            => LET irq_status == writes'[1].bits
                   error == irq_status \cap NPU_IRQ_ERROR # {}
               IN  /\ CallbackCalls(writes') = (IF ctx.callback # "NULL" THEN 1 ELSE 0)
                   /\ ctx'.state = (IF error THEN "NPU_STATE_ERROR" ELSE "NPU_STATE_IDLE")
                   /\ CountOf(writes', "callback(NPU_ERROR_HW_ERROR)")
                         = (IF error /\ ctx.callback # "NULL" THEN 1 ELSE 0) ]_vars

\* C36: the firmware context state becomes Done only from Running: no step
\* of npu_rt_wait or npu_rt_irq_handler (or of any other call) takes the
\* state from Idle, Init, Reset, Loading or Error to Done.
C36_DoneOnlyFromRunning ==
    [][ (Fw /\ g_ctx'.state = "NPU_STATE_DONE" /\ g_ctx.state # "NPU_STATE_DONE")
            => g_ctx.state = "NPU_STATE_RUNNING" ]_vars

\* the steps that make the state Done are steps of npu_rt_wait and
\* npu_rt_irq_handler
C36_DoneOnlyByWaitOrHandler ==
    [][ (Fw /\ g_ctx'.state = "NPU_STATE_DONE" /\ g_ctx.state # "NPU_STATE_DONE")
            => \/ op'.name = "npu_rt_irq_handler"
               \/ pc.call = "npu_rt_wait"
               \/ op'.name \in {"npu_rt_wait", "npu_rt_exec_layer", "npu_rt_exec_conv",
                                "npu_rt_exec_fc", "npu_rt_exec_pool",
                                "npu_rt_exec_eltwise"} ]_vars

\* C37: a poll of npu_rt_dma_wait, whatever status it reads, ends the wait with FW_OK only for a DMA
\* status with the done bit set and the error bit clear; for every status
\* with the error bit set, alone or together with done, it ends the wait
\* with FW_ERROR_DMA.
C37_DmaWaitErrorBeforeDone ==
    (Fw /\ op.name = "npu_rt_dma_wait")
       => \A status \in DmaStatusValues :
             LET done  == status \cap DMA_STATUS_DONE # {}
                 error == status \cap DMA_STATUS_ERROR # {}
             IN  /\ dma_wait_body(status) = "FW_OK" => (done /\ ~error)
                 /\ error => dma_wait_body(status) = "FW_ERROR_DMA"

\* the statuses without both bits at once
C37_DmaWaitOneBitAtATime ==
    (Fw /\ op.name = "npu_rt_dma_wait")
       => \A status \in DmaStatusValues :
             LET done  == status \cap DMA_STATUS_DONE # {}
                 error == status \cap DMA_STATUS_ERROR # {}
             IN  ~(done /\ error)
                    => dma_wait_body(status) =
                          (IF done THEN "FW_OK"
                           ELSE IF error THEN "FW_ERROR_DMA" ELSE "continue")

\* the execution wait gives the error bit priority over an expected done bit
C37_WaitStatusErrorBeforeDone ==
    Fw => \A status \in StatusValues :
             (status \cap STATUS_ERROR # {})
                => wait_status_body(status, STATUS_DONE \cup STATUS_ERROR, STATUS_DONE)
                      = "FW_ERROR_HW_FAULT"

\* the payload the header of the firmware model a declares does not fit
\* into the model_size bytes handed over
FwOverlong(a) ==
    8 * AsInt(a[3].inst_count) + AsInt(a[3].weight_size)
        > AsInt(a[2]) - sizeof_model_header_t

\* the same for the runtime library's model
RtOverlong(a) ==
    8 * AsInt(a[3].num_instructions) + AsInt(a[3].weights_size) + AsInt(a[3].bias_size)
        > AsInt(a[2]) - sizeof_npu_model_header_t

\* C38: npu_rt_load_model and npu_model_load_memory never read past the end
\* of the binary: a model whose header declares more instructions, weights
\* and bias than the size handed over leaves room for after the header is
\* refused before anything of its payload is copied.
C38_OverlongModelRefused ==
    [][ /\ (Fw /\ Calls({"npu_rt_load_model"}))
            => \A a \in FwModelArgs, e \in DmaEnv :
                  LET o == npu_rt_load_model(g_initialized, g_config, g_ctx, ctrl,
                                             a[1], a[2], a[3], e)
                  IN  (/\ g_initialized /\ a[1] # NullPtr /\ FwOverlong(a)
                       /\ g_ctx' = o.ctx /\ writes' = o.wr /\ op'.ret = o.ret)
                         => (op'.ret # "FW_OK" /\ writes' = <<>>)
        /\ (Rt /\ Calls({"npu_model_load_memory"}))
            => \A a \in RtModelArgs :
                  LET o == npu_model_load_memory(runtime, a[1], a[2], a[3])
                  IN  (/\ a[1] # NullPtr /\ RtOverlong(a)
                       /\ runtime' = o.rt /\ writes' = o.wr /\ op'.ret = o.ret)
                         => (op'.ret = "NULL" /\ writes' = <<>>) ]_vars

\* the half of C38 that is about the runtime library
C38_RtOverlongModelRefused ==
    [][ (Rt /\ Calls({"npu_model_load_memory"}))
            => \A a \in RtModelArgs :
                  LET o == npu_model_load_memory(runtime, a[1], a[2], a[3])
                  IN  (/\ a[1] # NullPtr /\ RtOverlong(a)
                       /\ runtime' = o.rt /\ writes' = o.wr /\ op'.ret = o.ret)
                         => (op'.ret = "NULL" /\ writes' = <<>>) ]_vars

\* a step in which the driver's wait_for_idle, called with a nonzero
\* timeout_ms, returns NPU_ERROR_TIMEOUT
DrvTimesOut ==
    /\ Drv
    /\ pc.loop = "wait_for_idle"
    /\ pc.timeout_ms # Zero32
    /\ pc'.call = "none"
    /\ op'.ret = "NPU_ERROR_TIMEOUT"

\* C39: for a nonzero timeout_ms, npu_wait and npu_run return Timeout only
\* after they polled the status at least once and for timeout_ms x 1000
\* microseconds, 10 microseconds a poll: never without a poll and never
\* before the time asked for.
C39_DrvTimeoutAfterRequestedTime ==
    [][ DrvTimesOut
            => /\ pc.polls >= 1
               /\ Limbs(pc.elapsed) = TimesExact(Limbs(pc.timeout_ms), 1000)
               /\ Limbs(pc.elapsed) = TimesExact(Limbs(U32(pc.polls)), 10) ]_vars

\* the same for the timeouts below 65536 ms
C39_DrvTimeoutShortWaits ==
    [][ (DrvTimesOut /\ pc.timeout_ms[1] = 0)
            => /\ pc.polls >= 1
               /\ Limbs(pc.elapsed) = TimesExact(Limbs(pc.timeout_ms), 1000)
               /\ Limbs(pc.elapsed) = TimesExact(Limbs(U32(pc.polls)), 10) ]_vars


(***************************************************************************)
(* C40: the Linux driver's done interrupt                                  *)
(***************************************************************************)
\* the device has raised the done interrupt: bit 0 of the IRQ-status register
\* (NPU_IRQ_DONE above) is set after NPU_IOC_START
DoneInterrupt == Linux /\ npu.started /\ NPU_IRQ_DONE \subseteq npu.irq_status

Waiting == \E p \in Tasks : npu.task[p] = "wait_for_completion"

\* C40: after NPU_IOC_START, when the hardware raises the done interrupt while
\* an NPU_IOC_WAIT is pending, the handler clears the done bit and signals
\* completion, so an NPU_IOC_WAIT eventually returns
C40_DoneInterruptReleasesWait ==
    \A n \in 0..MaxInterrupts :
        (DoneInterrupt /\ Waiting /\ npu.released = n)
            ~> (NPU_IRQ_DONE \cap npu.irq_status = {} /\ npu.released > n)

\* the handler, run on a done interrupt, clears the done bit and calls
\* complete()
C40_HandlerClearsDoneAndSignals ==
    [][ (edge_npu_irq /\ DoneInterrupt)
            => /\ NPU_IRQ_DONE \cap npu'.irq_status = {}
               /\ npu'.completed = npu.completed + 1 ]_vars

\* the handler acts on bit 1 of the IRQ-status register, the error bit: it
\* signals completion exactly when that bit is set
C40_HandlerActsOnErrorBit ==
    [][ edge_npu_irq
            => IF NPU_IRQ_ERROR \subseteq npu.irq_status
               THEN npu'.irq_status = {} /\ npu'.completed = npu.completed + 1
               ELSE npu'.irq_status = npu.irq_status
                    /\ npu'.completed = npu.completed ]_vars

\* a call of complete() releases at most one NPU_IOC_WAIT
C40_AtMostOneWaitPerCompletion == Linux => npu.released <= npu.completed

\* a done interrupt alone is pending, the handler has run and has returned
\* IRQ_NONE, and an NPU_IOC_WAIT is still waiting
C40_DoneInterruptIgnored ==
    /\ DoneInterrupt
    /\ npu.irq_status = NPU_IRQ_DONE
    /\ npu.irq_ret = "IRQ_NONE"
    /\ npu.raised = MaxInterrupts
    /\ Waiting

====
